---- MODULE Spec2Model ----
(***************************************************************************)
(* A model of the foolhardy-admin single-page application: the React       *)
(* components' state (useState cells), their event handlers, the requests  *)
(* they have in flight and the hosted store they talk to.                  *)
(*                                                                         *)
(* Text typed into an input is a tuple of one-character strings, so that   *)
(* Number(), trim() and toString() are computed, not assumed.              *)
(***************************************************************************)
EXTENDS Integers, Sequences, FiniteSets, TLC

VARIABLES
    client,    \* the store client the module supabaseClient exports, or Null
    auth,      \* AuthProvider state: session and loading
    location,  \* the router's location: pathname and navigation state
    page,      \* the element the route table renders at the location
    env,       \* the browser's clock and time zone, and the build's variables
    login,     \* Login component state
    cd,        \* CashDrawer component state
    inv,       \* Inventory component state
    gl,        \* Goals component state
    db,        \* Dashboard component state
    ne,        \* NewEvent component state
    ev,        \* Events component state
    ee,        \* EditEvent component state
    store,     \* the hosted store: one sequence of rows per table
    net,       \* requests in flight: handlers suspended at an await
    sent,      \* number of mutation requests issued so far
    quota,     \* mutation requests the run may still issue (the model's bound)
    alerted,   \* the text window.alert() showed in the latest step, or Null
    last       \* the event the latest step handled, and how it ended

vars == <<client, auth, location, login, page, env, cd, inv, gl, db, ne, ev, ee, store, net, sent, quota, alerted, last>>

\* Bounds of the model
MaxPending == 2       \* sign-in and sign-out requests in flight at a time
MaxAdjustments == 3   \* quick adjustments issued in a run on the Inventory screen
MaxFilled == 2        \* denomination fields the user fills in on the cash sheet
MaxRequests == 2      \* mutation requests issued in a run on one screen
MaxRequestsApp == 1   \* mutation requests issued in a run of the whole app

(***************************************************************************)
(* JavaScript values.  A value whose type the code leaves open (a string   *)
(* or a number, a number or NaN, a string or null) is a tagged record.     *)
(***************************************************************************)

Str(s) == [t |-> "string", v |-> s]
Num(n) == [t |-> "number", v |-> n]
NaN == [t |-> "NaN", v |-> 0]
Null == [t |-> "null", v |-> 0]
Undefined == [t |-> "undefined", v |-> 0]
Msg(m) == [t |-> "message", v |-> m]
\* a string of a closed vocabulary (an option of a <select>), kept whole
Word(w) == [t |-> "word", v |-> w]

IsNum(x) == x.t = "number"

\* alert(prefix + error.message)
Alert(prefix, message) == [t |-> "alert", v |-> <<prefix, message.v>>]

\* an event and its outcome
Ev(e, r) == [e |-> e, r |-> r]

\* a signed-in session of the auth service
Session == [t |-> "session", v |-> 1]

\* a location of the router: the path and the state a navigation carried
Location(pathname, state) == [pathname |-> pathname, state |-> state]

\* String.prototype.trim / StringToNumber white space
IsSpace(c) == c = " "

DigitChars == <<"0", "1", "2", "3", "4", "5", "6", "7", "8", "9">>

IsDigit(c) == \E i \in 1..10 : DigitChars[i] = c

DigitVal(c) == (CHOOSE i \in 1..10 : DigitChars[i] = c) - 1

RECURSIVE TrimStart(_)
TrimStart(s) ==
    IF s # <<>> /\ IsSpace(Head(s)) THEN TrimStart(Tail(s)) ELSE s

RECURSIVE TrimEnd(_)
TrimEnd(s) ==
    IF s # <<>> /\ IsSpace(s[Len(s)]) THEN TrimEnd(SubSeq(s, 1, Len(s) - 1)) ELSE s

Trim(s) == TrimEnd(TrimStart(s))

RECURSIVE DecimalValue(_)
DecimalValue(s) ==
    IF s = <<>> THEN 0
    ELSE 10 * DecimalValue(SubSeq(s, 1, Len(s) - 1)) + DigitVal(s[Len(s)])

AllDigits(s) == s # <<>> /\ \A i \in 1..Len(s) : IsDigit(s[i])

\* StringToNumber on integer literals: white space is trimmed, the empty
\* string is 0, an optionally signed run of digits is its value, anything
\* else is NaN.
StringToNumber(s) ==
    LET t == Trim(s) IN
    IF t = <<>> THEN Num(0)
    ELSE IF AllDigits(t) THEN Num(DecimalValue(t))
    ELSE IF t[1] = "-" /\ AllDigits(Tail(t)) THEN Num(0 - DecimalValue(Tail(t)))
    ELSE IF t[1] = "+" /\ AllDigits(Tail(t)) THEN Num(DecimalValue(Tail(t)))
    ELSE NaN

\* Number(x)
Number(x) ==
    CASE x.t = "string" -> StringToNumber(x.v)
      [] x.t = "number" -> x
      [] x.t = "null" -> Num(0)
      [] OTHER -> NaN

\* Number.prototype.toString for an integer
RECURSIVE NatToString(_)
NatToString(n) ==
    IF n < 10 THEN <<DigitChars[n + 1]>>
    ELSE NatToString(n \div 10) \o <<DigitChars[(n % 10) + 1]>>

toString(n) == IF n < 0 THEN <<"-">> \o NatToString(0 - n) ELSE NatToString(n)

\* IEEE arithmetic restricted to integers and NaN
Add(a, b) == IF IsNum(a) /\ IsNum(b) THEN Num(a.v + b.v) ELSE NaN
Sub(a, b) == IF IsNum(a) /\ IsNum(b) THEN Num(a.v - b.v) ELSE NaN
Mul(a, b) == IF IsNum(a) /\ IsNum(b) THEN Num(a.v * b.v) ELSE NaN

\* a > b, a <= b: false when either side is NaN
Gt(a, b) == IsNum(a) /\ IsNum(b) /\ a.v > b.v
Le(a, b) == IsNum(a) /\ IsNum(b) /\ a.v <= b.v

\* ToBoolean
Truthy(x) ==
    CASE x.t = "string" -> x.v # <<>>
      [] x.t = "number" -> x.v # 0
      [] x.t = "message" -> x.v # ""
      [] x.t = "word" -> x.v # ""
      [] x.t = "date" -> TRUE
      [] OTHER -> FALSE

\* a || b
OrElse(a, b) == IF Truthy(a) THEN a ELSE b

\* Math.max
Max(a, b) == IF IsNum(a) /\ IsNum(b) THEN (IF a.v >= b.v THEN a ELSE b) ELSE NaN

(***************************************************************************)
(* Dates.  An instant counts the hours since 2025-02-25T00:00Z, a calendar *)
(* day counts the days since 2025-02-25; a date string "YYYY-MM-DD" is the *)
(* number of its day.                                                      *)
(***************************************************************************)

\* a date string "YYYY-MM-DD"
DateStr(day) == [t |-> "date", v |-> day]

\* Date.prototype.toISOString().slice(0, 10): the UTC calendar day
toISODate(instant) == DateStr(instant \div 24)

\* the hours a zone's wall clock is ahead of UTC before and after its change
\* to summer time, and the instant of the change (2025-03-09T07:00Z)
Zones == {"UTC", "America/New_York"}
StandardOffset(zone) == IF zone = "America/New_York" THEN 0 - 5 ELSE 0
SummerOffset(zone) == IF zone = "America/New_York" THEN 0 - 4 ELSE 0
SummerTimeStart(zone) == 12 * 24 + 7

\* LocalTime(t): the wall clock reading of instant t, in hours
LocalTime(zone, instant) ==
    IF instant >= SummerTimeStart(zone) THEN instant + SummerOffset(zone)
    ELSE instant + StandardOffset(zone)

\* UTC(t): the instant at which the wall clock reads local
UTCOfLocal(zone, local) ==
    IF local - StandardOffset(zone) >= SummerTimeStart(zone) THEN local - SummerOffset(zone)
    ELSE local - StandardOffset(zone)

\* new Date("YYYY-MM-DD"): a date-only string is midnight UTC of its day
ParseDate(date) == 24 * date.v

\* d.setDate(d.getDate() + days): the same wall clock time, days later in
\* the browser's zone
setDatePlus(zone, instant, days) == UTCOfLocal(zone, LocalTime(zone, instant) + 24 * days)

\* addDays(date, days)
addDays(zone, instant, days) == setDatePlus(zone, instant, days)

\* formatDateForDB(date)
formatDateForDB(instant) == toISODate(instant)

\* toISOString().slice(0, 7): the month of a UTC day
Nov == <<"2", "0", "2", "4", "-", "1", "1">>
Jan == <<"2", "0", "2", "5", "-", "0", "1">>
Feb == <<"2", "0", "2", "5", "-", "0", "2">>
Mar == <<"2", "0", "2", "5", "-", "0", "3">>
Apr == <<"2", "0", "2", "5", "-", "0", "4">>
toISOMonth(instant) ==
    LET day == instant \div 24 IN
    IF day < 4 THEN Feb ELSE IF day < 35 THEN Mar ELSE Apr

(***************************************************************************)
(* CashDrawer: the denomination sheet                                      *)
(***************************************************************************)

DENOMS == <<
    [label |-> "$100", value |-> 100],
    [label |-> "$50",  value |-> 50],
    [label |-> "$20",  value |-> 20],
    [label |-> "$10",  value |-> 10],
    [label |-> "$5",   value |-> 5],
    [label |-> "$1",   value |-> 1] >>

\* counts[key]: the entered string, or undefined
Lookup(counts, key) == IF key \in DOMAIN counts THEN Str(counts[key]) ELSE Undefined

\* the reducer of computeTotal, applied to one denomination
computeTotalStep(sum, d, counts) ==
    LET raw == OrElse(Lookup(counts, toString(d.value)), Str(<<"0">>))
        num == Number(raw)
    IN  IF num = NaN THEN sum ELSE Add(sum, Mul(num, Num(d.value)))

RECURSIVE Reduce(_, _, _)
Reduce(ds, sum, counts) ==
    IF ds = <<>> THEN sum
    ELSE Reduce(Tail(ds), computeTotalStep(sum, Head(ds), counts), counts)

computeTotal(counts) == Reduce(DENOMS, Num(0), counts)

openingTotal == computeTotal(cd.openingCounts)
closingTotal == computeTotal(cd.closingCounts)
stallFeeNum == Number(OrElse(Str(cd.stallFee), Num(0)))
payoutsNum == Number(OrElse(Str(cd.payouts), Num(0)))

\* the Net column of the recent sessions table, for the session s
sessionNet(s) == Sub(Sub(Sub(s.closing_total, s.opening_total), s.stall_fee), s.payouts)

netCashWrongSign == Add(Sub(Sub(closingTotal, openingTotal), stallFeeNum), payoutsNum)

netCash == Sub(Sub(Sub(closingTotal, openingTotal), stallFeeNum), payoutsNum)

(***************************************************************************)
(* The hosted store and the requests in flight                             *)
(***************************************************************************)

\* Messages a failed request may carry (error.message)
ErrorMessages == {"remote error", ""}

\* a screen that is not on the page
Unmounted == [mounted |-> FALSE]

Request(n, h, arg) == [n |-> n, h |-> h, phase |-> "sent", arg |-> arg, data |-> Null]

RemoveAt(s, i) == SubSeq(s, 1, i - 1) \o SubSeq(s, i + 1, Len(s))

Elements(s) == {s[i] : i \in 1..Len(s)}

\* Array.prototype.filter
Filter(s, Test(_)) == SelectSeq(s, Test)

\* Array.prototype.map
MapSeq(s, F(_)) == [i \in 1..Len(s) |-> F(s[i])]

\* the first n elements (limit n)
Take(s, n) == SubSeq(s, 1, IF Len(s) < n THEN Len(s) ELSE n)

\* ORDER BY: the rows of s in the order Before, rows that tie keeping the
\* order they have in s
OrderBy(s, Before(_, _)) ==
    LET rank(i) == 1 + Cardinality({j \in 1..Len(s) :
                        \/ Before(s[j], s[i])
                        \/ (~Before(s[i], s[j]) /\ j < i)})
    IN  [k \in 1..Len(s) |-> s[CHOOSE i \in 1..Len(s) : rank(i) = k]]

\* handleCountChange(which, denomValue, value)
handleCountChange(which, denomValue, value) ==
    LET key == toString(denomValue)
        put(prev) == [k \in DOMAIN prev \cup {key} |-> IF k = key THEN value ELSE prev[k]]
    IN  IF which = "opening"
        THEN cd' = [cd EXCEPT !.openingCounts = put(@)]
        ELSE cd' = [cd EXCEPT !.closingCounts = put(@)]

setStallFee(value) == cd' = [cd EXCEPT !.stallFee = value]
setPayouts(value) == cd' = [cd EXCEPT !.payouts = value]
setNotes(value) == cd' = [cd EXCEPT !.notes = value]

\* useState initial values of CashDrawer
CashDrawerMount == [
    date |-> toISODate(env.now),
    openingCounts |-> <<>>, closingCounts |-> <<>>,
    stallFee |-> <<>>, payouts |-> <<>>, notes |-> <<>>,
    saving |-> FALSE, errorMsg |-> Null,
    sessions |-> <<>>, loadingSessions |-> TRUE ]

\* the columns every cash_sessions query selects
CashColumns(row) == [
    id |-> row.id, date |-> row.date,
    opening_total |-> row.opening_total, closing_total |-> row.closing_total,
    stall_fee |-> row.stall_fee, payouts |-> row.payouts, notes |-> row.notes ]

\* .order("date", desc).order("created_at", desc).limit(20)
cashSessionsSelect ==
    LET Before(a, b) == \/ a.date.v > b.date.v
                        \/ (a.date.v = b.date.v /\ a.created_at > b.created_at)
    IN  MapSeq(Take(OrderBy(store.cash_sessions, Before), 20), CashColumns)

\* .insert([row]).select(...).single()
InsertedRow(fields) == fields @@ [id |-> store.nextId, created_at |-> store.nextId]

\* a constraint validation of <input type="number" min=...>: blank, or a
\* number not below min
NumberInputValid(text, min) ==
    text = <<>> \/ (IsNum(Number(Str(text))) /\ Number(Str(text)).v >= min)

CashFormValid ==
    /\ \A k \in DOMAIN cd.openingCounts : NumberInputValid(cd.openingCounts[k], 0)
    /\ \A k \in DOMAIN cd.closingCounts : NumberInputValid(cd.closingCounts[k], 0)
    /\ NumberInputValid(cd.stallFee, 0)
    /\ NumberInputValid(cd.payouts, 0)

\* notes.trim() || null
TrimOrNull(text) == OrElse(Str(Trim(text)), Null)

\* as handleSave, leaving the stall fee out of the insert
handleSaveWithoutFee ==
    /\ quota > 0
    /\ cd' = [cd EXCEPT !.saving = TRUE, !.errorMsg = Null]
    /\ net' = Append(net, Request(sent + 1, "cd.handleSave", [
            date |-> cd.date,
            opening_total |-> openingTotal,
            closing_total |-> closingTotal,
            stall_fee |-> Num(0),
            payouts |-> OrElse(payoutsNum, Num(0)),
            notes |-> TrimOrNull(cd.notes) ]))
    /\ sent' = sent + 1 /\ quota' = quota - 1
    /\ last' = Ev("cd.handleSave", "sent")

\* handleSave, up to its await
handleSave ==
    /\ quota > 0
    /\ cd' = [cd EXCEPT !.saving = TRUE, !.errorMsg = Null]
    /\ net' = Append(net, Request(sent + 1, "cd.handleSave", [
            date |-> cd.date,
            opening_total |-> openingTotal,
            closing_total |-> closingTotal,
            stall_fee |-> OrElse(stallFeeNum, Num(0)),
            payouts |-> OrElse(payoutsNum, Num(0)),
            notes |-> TrimOrNull(cd.notes) ]))
    /\ sent' = sent + 1 /\ quota' = quota - 1
    /\ last' = Ev("cd.handleSave", "sent")

\* the cash form is submitted
SubmitCash ==
    /\ ~cd.saving
    /\ IF CashFormValid
       THEN handleSave
       ELSE UNCHANGED <<cd, net, sent, quota>> /\ last' = Ev("cd.handleSave", "blocked")


\* as handleSaveResume, with the saved session put after the sessions shown
handleSaveResumeAppending(i) ==
    LET r == net[i] IN
    /\ r.h = "cd.handleSave" /\ r.phase # "sent"
    /\ net' = RemoveAt(net, i)
    /\ IF r.phase = "error"
       THEN cd' = [cd EXCEPT
                !.errorMsg = OrElse(r.data, Msg("Error saving cash session")),
                !.saving = FALSE]
       ELSE cd' = [cd EXCEPT
                !.sessions = IF r.data # Null THEN @ \o <<r.data>> ELSE @,
                !.notes = <<>>, !.stallFee = <<>>, !.payouts = <<>>,
                !.saving = FALSE]
    /\ last' = Ev("cd.handleSave", r.phase)

\* handleSave, from its await on
handleSaveResume(i) ==
    LET r == net[i] IN
    /\ r.h = "cd.handleSave" /\ r.phase # "sent"
    /\ net' = RemoveAt(net, i)
    /\ IF r.phase = "error"
       THEN cd' = [cd EXCEPT
                !.errorMsg = OrElse(r.data, Msg("Error saving cash session")),
                !.saving = FALSE]
       ELSE cd' = [cd EXCEPT
                !.sessions = IF r.data # Null THEN <<r.data>> \o @ ELSE @,
                !.notes = <<>>, !.stallFee = <<>>, !.payouts = <<>>,
                !.saving = FALSE]
    /\ last' = Ev("cd.handleSave", r.phase)

\* loadSessions, from its await on
loadSessionsResume(i) ==
    LET r == net[i] IN
    /\ r.h = "cd.loadSessions" /\ r.phase # "sent"
    /\ net' = RemoveAt(net, i)
    /\ IF r.phase = "error"
       THEN cd' = [cd EXCEPT !.errorMsg = r.data, !.loadingSessions = FALSE]
       ELSE cd' = [cd EXCEPT !.sessions = r.data, !.loadingSessions = FALSE]
    /\ last' = Ev("cd.loadSessions", r.phase)

(***************************************************************************)
(* Goals                                                                   *)
(***************************************************************************)

\* UTF-16 code units of the characters month strings are made of
LowerCase == <<"a", "b", "c", "d", "e", "f", "g", "h", "i", "j", "k", "l", "m",
               "n", "o", "p", "q", "r", "s", "t", "u", "v", "w", "x", "y", "z">>

CharCode(c) ==
    IF IsDigit(c) THEN 48 + DigitVal(c)
    ELSE IF c = "-" THEN 45
    ELSE IF c = " " THEN 32
    ELSE 96 + (CHOOSE i \in 1..26 : LowerCase[i] = c)

\* a < b on strings: lexicographic by code unit
RECURSIVE StrLess(_, _)
StrLess(a, b) ==
    IF b = <<>> THEN FALSE
    ELSE IF a = <<>> THEN TRUE
    ELSE IF CharCode(Head(a)) # CharCode(Head(b)) THEN CharCode(Head(a)) < CharCode(Head(b))
    ELSE StrLess(Tail(a), Tail(b))

\* as PushGoal, but a later goal of a month replaces the month's bucket
PushGoalOverwrite(map, goal) ==
    IF \E i \in 1..Len(map) : map[i][1] = goal.month
    THEN [i \in 1..Len(map) |->
            IF map[i][1] = goal.month THEN <<map[i][1], <<goal>>>> ELSE map[i]]
    ELSE Append(map, <<goal.month, <<goal>>>>)

\* map[goal.month].push(goal), creating the bucket on first use; the map is
\* the sequence of its entries [key, goals] in insertion order
PushGoal(map, goal) ==
    IF \E i \in 1..Len(map) : map[i][1] = goal.month
    THEN [i \in 1..Len(map) |->
            IF map[i][1] = goal.month THEN <<map[i][1], Append(map[i][2], goal)>> ELSE map[i]]
    ELSE Append(map, <<goal.month, <<goal>>>>)

RECURSIVE GroupLoop(_, _)
GroupLoop(goals, map) ==
    IF goals = <<>> THEN map
    ELSE GroupLoop(Tail(goals),
                   IF ~Head(goals).is_done THEN PushGoal(map, Head(goals)) ELSE map)

\* as MonthCompare, with the months the other way round
MonthCompareDescending(a, b) == IF StrLess(b[1], a[1]) THEN 0 - 1 ELSE 1

\* the comparator ([a], [b]) => (a < b ? -1 : 1)
MonthCompare(a, b) == IF StrLess(a[1], b[1]) THEN 0 - 1 ELSE 1

\* Array.prototype.sort as an insertion sort under MonthCompare
RECURSIVE InsertEntry(_, _)
InsertEntry(sorted, e) ==
    IF sorted = <<>> THEN <<e>>
    ELSE IF MonthCompare(e, Head(sorted)) < 0 THEN <<e>> \o sorted
    ELSE <<Head(sorted)>> \o InsertEntry(Tail(sorted), e)

RECURSIVE SortEntries(_)
SortEntries(entries) ==
    IF entries = <<>> THEN <<>>
    ELSE InsertEntry(SortEntries(SubSeq(entries, 1, Len(entries) - 1)), entries[Len(entries)])

groupActiveByMonth(goals) == SortEntries(GroupLoop(goals, <<>>))

activeByMonth == groupActiveByMonth(gl.goals)

IsDone(g) == g.is_done
completedGoals == Filter(gl.goals, IsDone)

\* useState initial values of Goals
GoalsMount == [
    goals |-> <<>>, loading |-> TRUE, errorMsg |-> Null,
    newTitle |-> <<>>, newMonth |-> <<>>, newNotes |-> <<>>, savingNew |-> FALSE,
    editingId |-> Null, editTitle |-> <<>>, editMonth |-> <<>>, editNotes |-> <<>>,
    savingEdit |-> FALSE, togglingId |-> Null ]

\* .select("id, title, month, is_done, notes, created_at")
\*   .order("month", asc).order("created_at", desc)
goalsSelect ==
    LET Before(a, b) == \/ StrLess(a.month, b.month)
                        \/ (a.month = b.month /\ a.created_at > b.created_at)
    IN  OrderBy(store.goals, Before)

\* .select("id, title, month, is_done, notes")
GoalColumns(row) == [id |-> row.id, title |-> row.title, month |-> row.month,
                     is_done |-> row.is_done, notes |-> row.notes]


\* as Spread, with the row's own fields written over the patch
SpreadRowOverPatch(row, patch) == row @@ patch

\* { ...row, ...patch }
Spread(row, patch) == patch @@ row

\* .update(patch).eq("id", id)
UpdateWhereId(rows, id, patch) ==
    [i \in 1..Len(rows) |-> IF rows[i].id = id THEN Spread(rows[i], patch) ELSE rows[i]]

\* .delete().eq("id", id), and prev.filter((g) => g.id !== id)
DeleteWhereId(rows, id) == LET Keep(row) == row.id # id IN Filter(rows, Keep)

\* loadGoals, from its await on
loadGoalsResume(i) ==
    LET r == net[i] IN
    /\ r.h = "gl.loadGoals" /\ r.phase # "sent"
    /\ net' = RemoveAt(net, i)
    /\ IF r.phase = "error"
       THEN gl' = [gl EXCEPT !.errorMsg = r.data, !.loading = FALSE]
       ELSE gl' = [gl EXCEPT !.goals = r.data, !.loading = FALSE]
    /\ last' = Ev("gl.loadGoals", r.phase)

\* <input required>: the browser dispatches submit only when these hold
AddGoalFormValid == gl.newTitle # <<>> /\ gl.newMonth # <<>>

\* handleAddGoal, up to its await; "rejected" is the early return
handleAddGoal ==
    IF ~Truthy(Str(gl.newTitle)) \/ ~Truthy(Str(gl.newMonth))
    THEN /\ UNCHANGED <<gl, net, sent, quota>>
         /\ last' = Ev("gl.handleAddGoal", "rejected")
    ELSE /\ quota > 0
         /\ gl' = [gl EXCEPT !.savingNew = TRUE, !.errorMsg = Null]
         /\ net' = Append(net, Request(sent + 1, "gl.handleAddGoal",
                [title |-> gl.newTitle, month |-> gl.newMonth,
                 notes |-> TrimOrNull(gl.newNotes)]))
         /\ sent' = sent + 1 /\ quota' = quota - 1
         /\ last' = Ev("gl.handleAddGoal", "sent")

\* the Add goal form is submitted
SubmitAddGoal ==
    /\ ~gl.savingNew
    /\ IF AddGoalFormValid
       THEN handleAddGoal
       ELSE UNCHANGED <<gl, net, sent, quota>> /\ last' = Ev("gl.handleAddGoal", "blocked")

\* as handleAddGoalResume, sending the insert again after an error
handleAddGoalResumeRetrying(i) ==
    LET r == net[i] IN
    /\ r.h = "gl.handleAddGoal" /\ r.phase # "sent"
    /\ net' = IF r.phase = "error"
              THEN Append(RemoveAt(net, i), Request(r.n, r.h, r.arg))
              ELSE RemoveAt(net, i)
    /\ IF r.phase = "error"
       THEN gl' = [gl EXCEPT !.errorMsg = OrElse(r.data, Msg("Error adding goal"))]
       ELSE gl' = [gl EXCEPT !.goals = IF r.data # Null THEN Append(@, r.data) ELSE @,
                             !.newTitle = <<>>, !.newNotes = <<>>,
                             !.savingNew = FALSE]
    /\ alerted' = Null
    /\ last' = Ev("gl.handleAddGoal", r.phase)

\* handleAddGoal, from its await on
handleAddGoalResume(i) ==
    LET r == net[i] IN
    /\ r.h = "gl.handleAddGoal" /\ r.phase # "sent"
    /\ net' = RemoveAt(net, i)
    /\ IF r.phase = "error"
       THEN gl' = [gl EXCEPT !.errorMsg = OrElse(r.data, Msg("Error adding goal")),
                             !.savingNew = FALSE]
       ELSE gl' = [gl EXCEPT !.goals = IF r.data # Null THEN Append(@, r.data) ELSE @,
                             !.newTitle = <<>>, !.newNotes = <<>>,
                             !.savingNew = FALSE]
    /\ alerted' = Null
    /\ last' = Ev("gl.handleAddGoal", r.phase)

\* toggleDone(goal), up to its await
toggleDone(goal) ==
    /\ quota > 0
    /\ gl' = [gl EXCEPT !.togglingId = Num(goal.id)]
    /\ net' = Append(net, Request(sent + 1, "gl.toggleDone",
            [id |-> goal.id, patch |-> [is_done |-> ~goal.is_done]]))
    /\ sent' = sent + 1 /\ quota' = quota - 1
    /\ last' = Ev("gl.toggleDone", "sent")

\* toggleDone, from its await on
toggleDoneResume(i) ==
    LET r == net[i] IN
    /\ r.h = "gl.toggleDone" /\ r.phase # "sent"
    /\ net' = RemoveAt(net, i)
    /\ IF r.phase = "error"
       THEN /\ alerted' = Alert("Error updating goal: ", r.data)
            /\ gl' = [gl EXCEPT !.togglingId = Null]
       ELSE /\ alerted' = Null
            /\ gl' = [gl EXCEPT !.goals = UpdateWhereId(@, r.arg.id, r.arg.patch),
                                !.togglingId = Null]
    /\ last' = Ev("gl.toggleDone", r.phase)


\* as deleteGoal, sending the request whatever the user answers
deleteGoalWithoutAsking(id, confirmed) ==
    /\ quota > 0
    /\ net' = Append(net, Request(sent + 1, "gl.deleteGoal", [id |-> id]))
    /\ sent' = sent + 1 /\ quota' = quota - 1
    /\ UNCHANGED gl
    /\ last' = Ev("gl.deleteGoal", IF confirmed THEN "sent" ELSE "declined")

\* deleteGoal(id), up to its await; confirmed is the answer to window.confirm
deleteGoal(id, confirmed) ==
    IF ~confirmed
    THEN /\ UNCHANGED <<gl, net, sent, quota>>
         /\ last' = Ev("gl.deleteGoal", "declined")
    ELSE /\ quota > 0
         /\ net' = Append(net, Request(sent + 1, "gl.deleteGoal", [id |-> id]))
         /\ sent' = sent + 1 /\ quota' = quota - 1
         /\ UNCHANGED gl
         /\ last' = Ev("gl.deleteGoal", "sent")

\* deleteGoal, from its await on
deleteGoalResume(i) ==
    LET r == net[i] IN
    /\ r.h = "gl.deleteGoal" /\ r.phase # "sent"
    /\ net' = RemoveAt(net, i)
    /\ IF r.phase = "error"
       THEN alerted' = Alert("Error deleting goal: ", r.data) /\ UNCHANGED gl
       ELSE alerted' = Null /\ gl' = [gl EXCEPT !.goals = DeleteWhereId(@, r.arg.id)]
    /\ last' = Ev("gl.deleteGoal", r.phase)

\* goal.notes || ""
TextOrEmpty(x) == IF Truthy(x) THEN x.v ELSE <<>>

Goals_startEdit(goal) ==
    gl' = [gl EXCEPT !.editingId = Num(goal.id), !.editTitle = goal.title,
                     !.editMonth = goal.month, !.editNotes = TextOrEmpty(goal.notes)]

Goals_cancelEdit ==
    gl' = [gl EXCEPT !.editingId = Null, !.editTitle = <<>>,
                     !.editMonth = <<>>, !.editNotes = <<>>]

\* saveEdit(goalId), up to its await
Goals_saveEdit(goalId) ==
    IF ~Truthy(Str(gl.editTitle)) \/ ~Truthy(Str(gl.editMonth))
    THEN /\ UNCHANGED <<gl, net, sent, quota>>
         /\ last' = Ev("gl.saveEdit", "rejected")
    ELSE /\ quota > 0
         /\ gl' = [gl EXCEPT !.savingEdit = TRUE, !.errorMsg = Null]
         /\ net' = Append(net, Request(sent + 1, "gl.saveEdit",
                [id |-> goalId,
                 patch |-> [title |-> gl.editTitle, month |-> gl.editMonth,
                            notes |-> TrimOrNull(gl.editNotes)]]))
         /\ sent' = sent + 1 /\ quota' = quota - 1
         /\ last' = Ev("gl.saveEdit", "sent")

\* saveEdit, from its await on
Goals_saveEditResume(i) ==
    LET r == net[i] IN
    /\ r.h = "gl.saveEdit" /\ r.phase # "sent"
    /\ net' = RemoveAt(net, i)
    /\ IF r.phase = "error"
       THEN gl' = [gl EXCEPT !.errorMsg = OrElse(r.data, Msg("Error saving changes")),
                             !.savingEdit = FALSE]
       ELSE gl' = [gl EXCEPT !.goals = UpdateWhereId(@, r.arg.id, r.arg.patch),
                             !.editingId = Null, !.editTitle = <<>>,
                             !.editMonth = <<>>, !.editNotes = <<>>,
                             !.savingEdit = FALSE]
    /\ alerted' = Null
    /\ last' = Ev("gl.saveEdit", r.phase)

(***************************************************************************)
(* Inventory                                                               *)
(***************************************************************************)

\* isLow(item) of the Inventory screen
Inventory_isLow(item) == item.reorder_threshold > 0 /\ item.quantity <= item.reorder_threshold

\* lowCount: the same test, written out in the filter
lowCount ==
    LET Test(item) == item.reorder_threshold > 0 /\ item.quantity <= item.reorder_threshold
    IN  Len(Filter(inv.items, Test))

\* useState initial values of Inventory
InventoryMount == [
    items |-> <<>>, loading |-> TRUE, errorMsg |-> Null,
    newName |-> <<>>, newCategory |-> <<"b", "e", "a", "n", "s">>, newUnit |-> <<>>,
    newQuantity |-> Str(<<>>), newThreshold |-> Str(<<>>), newNotes |-> <<>>,
    savingNew |-> FALSE,
    editingId |-> Null, editName |-> <<>>, editCategory |-> <<"b", "e", "a", "n", "s">>,
    editUnit |-> <<>>, editQuantity |-> Str(<<>>), editThreshold |-> Str(<<>>),
    editNotes |-> <<>>, savingEdit |-> FALSE,
    deletingId |-> Null, updatingQtyId |-> Null ]

\* .select("id, name, category, unit, quantity, reorder_threshold, notes")
ItemColumns(row) == [id |-> row.id, name |-> row.name, category |-> row.category,
                     unit |-> row.unit, quantity |-> row.quantity,
                     reorder_threshold |-> row.reorder_threshold, notes |-> row.notes]

\* .order("category", asc).order("name", asc)
ByCategoryThenName(a, b) ==
    \/ StrLess(a.category, b.category)
    \/ (a.category = b.category /\ StrLess(a.name, b.name))

inventorySelect == MapSeq(OrderBy(store.inventory_items, ByCategoryThenName), ItemColumns)

\* loadItems, from its await on
loadItemsResume(i) ==
    LET r == net[i] IN
    /\ r.h = "inv.loadItems" /\ r.phase # "sent"
    /\ net' = RemoveAt(net, i)
    /\ IF r.phase = "error"
       THEN inv' = [inv EXCEPT !.errorMsg = r.data, !.loading = FALSE]
       ELSE inv' = [inv EXCEPT !.items = r.data, !.loading = FALSE]
    /\ alerted' = Null
    /\ last' = Ev("inv.loadItems", r.phase)

\* newQuantity === "" ? 0 : Number(newQuantity); a number input holds the
\* empty string or a numeric string
QuantityValue(x) == IF x = Str(<<>>) THEN Num(0) ELSE Number(x)

\* <input required> on name and unit, <input type="number" min={0}> on
\* quantity and threshold: the browser dispatches submit only when these hold
AddItemFormValid ==
    /\ inv.newName # <<>> /\ inv.newUnit # <<>>
    /\ NumberInputValid(inv.newQuantity.v, 0)
    /\ NumberInputValid(inv.newThreshold.v, 0)

\* handleAddItem, up to its await; "rejected" is the early return
handleAddItem ==
    IF ~Truthy(Str(inv.newName)) \/ ~Truthy(Str(inv.newUnit))
    THEN /\ UNCHANGED <<inv, net, sent, quota>>
         /\ last' = Ev("inv.handleAddItem", "rejected")
    ELSE /\ quota > 0
         /\ inv' = [inv EXCEPT !.savingNew = TRUE, !.errorMsg = Null]
         /\ net' = Append(net, Request(sent + 1, "inv.handleAddItem",
                [name |-> inv.newName, category |-> inv.newCategory,
                 unit |-> inv.newUnit,
                 quantity |-> QuantityValue(inv.newQuantity).v,
                 reorder_threshold |-> QuantityValue(inv.newThreshold).v,
                 notes |-> TrimOrNull(inv.newNotes)]))
         /\ sent' = sent + 1 /\ quota' = quota - 1
         /\ last' = Ev("inv.handleAddItem", "sent")

\* the Add item form is submitted
SubmitAddItem ==
    /\ ~inv.savingNew
    /\ IF AddItemFormValid
       THEN handleAddItem
       ELSE UNCHANGED <<inv, net, sent, quota>> /\ last' = Ev("inv.handleAddItem", "blocked")

\* handleAddItem, from its await on
handleAddItemResume(i) ==
    LET r == net[i] IN
    /\ r.h = "inv.handleAddItem" /\ r.phase # "sent"
    /\ net' = RemoveAt(net, i)
    /\ IF r.phase = "error"
       THEN inv' = [inv EXCEPT !.errorMsg = OrElse(r.data, Msg("Error adding item")),
                               !.savingNew = FALSE]
       ELSE inv' = [inv EXCEPT !.items = IF r.data # Null THEN Append(@, r.data) ELSE @,
                               !.newName = <<>>, !.newUnit = <<>>,
                               !.newQuantity = Str(<<>>), !.newThreshold = Str(<<>>),
                               !.newNotes = <<>>,
                               !.savingNew = FALSE]
    /\ alerted' = Null
    /\ last' = Ev("inv.handleAddItem", r.phase)

Inventory_startEdit(item) ==
    inv' = [inv EXCEPT !.editingId = Num(item.id), !.editName = item.name,
                       !.editCategory = item.category, !.editUnit = item.unit,
                       !.editQuantity = Num(item.quantity),
                       !.editThreshold = Num(item.reorder_threshold),
                       !.editNotes = TextOrEmpty(item.notes)]

Inventory_cancelEdit ==
    [inv EXCEPT !.editingId = Null, !.editName = <<>>, !.editUnit = <<>>,
                !.editQuantity = Str(<<>>), !.editThreshold = Str(<<>>),
                !.editNotes = <<>>]

\* the object saveEdit sends and merges into the row
EditItemPatch == [
    name |-> inv.editName, category |-> inv.editCategory, unit |-> inv.editUnit,
    quantity |-> QuantityValue(inv.editQuantity).v,
    reorder_threshold |-> QuantityValue(inv.editThreshold).v,
    notes |-> TrimOrNull(inv.editNotes) ]

\* saveEdit(itemId), up to its await; "rejected" is the early return
Inventory_saveEdit(itemId) ==
    IF ~Truthy(Str(inv.editName)) \/ ~Truthy(Str(inv.editUnit))
    THEN /\ UNCHANGED <<inv, net, sent, quota>>
         /\ last' = Ev("inv.saveEdit", "rejected")
    ELSE /\ quota > 0
         /\ inv' = [inv EXCEPT !.savingEdit = TRUE, !.errorMsg = Null]
         /\ net' = Append(net, Request(sent + 1, "inv.saveEdit",
                [id |-> itemId, patch |-> EditItemPatch]))
         /\ sent' = sent + 1 /\ quota' = quota - 1
         /\ last' = Ev("inv.saveEdit", "sent")

\* as Inventory_saveEditResume, closing the edit form after an error too
Inventory_saveEditResumeClosing(i) ==
    LET r == net[i] IN
    /\ r.h = "inv.saveEdit" /\ r.phase # "sent"
    /\ net' = RemoveAt(net, i)
    /\ IF r.phase = "error"
       THEN inv' = [Inventory_cancelEdit EXCEPT
                        !.errorMsg = OrElse(r.data, Msg("Error saving changes")),
                        !.savingEdit = FALSE]
       ELSE inv' = [Inventory_cancelEdit EXCEPT
                        !.items = UpdateWhereId(@, r.arg.id, r.arg.patch),
                        !.savingEdit = FALSE]
    /\ alerted' = Null
    /\ last' = Ev("inv.saveEdit", r.phase)

\* saveEdit, from its await on: the row takes the values the call captured
\* when Save was clicked, then cancelEdit()
Inventory_saveEditResume(i) ==
    LET r == net[i] IN
    /\ r.h = "inv.saveEdit" /\ r.phase # "sent"
    /\ net' = RemoveAt(net, i)
    /\ IF r.phase = "error"
       THEN inv' = [inv EXCEPT !.errorMsg = OrElse(r.data, Msg("Error saving changes")),
                               !.savingEdit = FALSE]
       ELSE inv' = [Inventory_cancelEdit EXCEPT
                        !.items = UpdateWhereId(@, r.arg.id, r.arg.patch),
                        !.savingEdit = FALSE]
    /\ alerted' = Null
    /\ last' = Ev("inv.saveEdit", r.phase)

\* deleteItem(id), up to its await; confirmed is the answer to window.confirm
deleteItem(id, confirmed) ==
    IF ~confirmed
    THEN /\ UNCHANGED <<inv, net, sent, quota>>
         /\ last' = Ev("inv.deleteItem", "declined")
    ELSE /\ quota > 0
         /\ inv' = [inv EXCEPT !.deletingId = Num(id)]
         /\ net' = Append(net, Request(sent + 1, "inv.deleteItem", [id |-> id]))
         /\ sent' = sent + 1 /\ quota' = quota - 1
         /\ last' = Ev("inv.deleteItem", "sent")

\* as deleteItemResume, taking the row off the list whatever the answer
deleteItemResumeOptimistic(i) ==
    LET r == net[i] IN
    /\ r.h = "inv.deleteItem" /\ r.phase # "sent"
    /\ net' = RemoveAt(net, i)
    /\ alerted' = IF r.phase = "error" THEN Alert("Error deleting item: ", r.data) ELSE Null
    /\ inv' = [inv EXCEPT !.items = DeleteWhereId(@, r.arg.id), !.deletingId = Null]
    /\ last' = Ev("inv.deleteItem", r.phase)

\* deleteItem, from its await on
deleteItemResume(i) ==
    LET r == net[i] IN
    /\ r.h = "inv.deleteItem" /\ r.phase # "sent"
    /\ net' = RemoveAt(net, i)
    /\ IF r.phase = "error"
       THEN /\ alerted' = Alert("Error deleting item: ", r.data)
            /\ inv' = [inv EXCEPT !.deletingId = Null]
       ELSE /\ alerted' = Null
            /\ inv' = [inv EXCEPT !.items = DeleteWhereId(@, r.arg.id),
                                  !.deletingId = Null]
    /\ last' = Ev("inv.deleteItem", r.phase)

\* adjustQuantity(item, delta), up to its await
adjustQuantity(item, delta) ==
    LET newQty == Max(Num(0), Num(item.quantity + delta)).v IN
    /\ quota > 0
    /\ inv' = [inv EXCEPT !.updatingQtyId = Num(item.id)]
    /\ net' = Append(net, Request(sent + 1, "inv.adjustQuantity",
            [id |-> item.id, patch |-> [quantity |-> newQty]]))
    /\ sent' = sent + 1 /\ quota' = quota - 1
    /\ last' = Ev("inv.adjustQuantity", "sent")

\* adjustQuantity, from its await on
adjustQuantityResume(i) ==
    LET r == net[i] IN
    /\ r.h = "inv.adjustQuantity" /\ r.phase # "sent"
    /\ net' = RemoveAt(net, i)
    /\ IF r.phase = "error"
       THEN /\ alerted' = OrElse(r.data, Msg("Error updating quantity"))
            /\ inv' = [inv EXCEPT !.updatingQtyId = Null]
       ELSE /\ alerted' = Null
            /\ inv' = [inv EXCEPT !.items = UpdateWhereId(@, r.arg.id, r.arg.patch),
                                  !.updatingQtyId = Null]
    /\ last' = Ev("inv.adjustQuantity", r.phase)

(***************************************************************************)
(* Dashboard                                                               *)
(***************************************************************************)

\* as isLow, with the quantity strictly below the threshold
isLowStrictlyBelow(item) == item.reorder_threshold > 0 /\ item.quantity < item.reorder_threshold

\* isLow(item) of the Dashboard
isLow(item) == item.reorder_threshold > 0 /\ item.quantity <= item.reorder_threshold

\* useState initial values of Dashboard
DashboardMount == [loading |-> TRUE, errorMsg |-> Null,
                   events |-> <<>>, inventory |-> <<>>, goals |-> <<>>]

\* the three queries loadData sends at once; each names the values the
\* query is filtered by
loadDataRequests ==
    LET today == env.now
        in30 == setDatePlus(env.zone, env.now, 30)
    IN  << Request(0, "db.loadData.events",
                   [todayStr |-> toISODate(today), in30Str |-> toISODate(in30)]),
           Request(0, "db.loadData.inventory", Null),
           Request(0, "db.loadData.goals", [currentMonthStr |-> toISOMonth(today)]) >>

\* .select("id, title, date, type, status, location")
DashEventColumns(row) == [id |-> row.id, title |-> row.title, date |-> row.date,
                          type |-> row.type, status |-> row.status,
                          location |-> row.location]

\* .gte("date", todayStr).lte("date", in30Str).order("date", asc)
dashEventsSelect(arg) ==
    LET InWindow(row) == row.date.v >= arg.todayStr.v /\ row.date.v <= arg.in30Str.v
        Before(a, b) == a.date.v < b.date.v
    IN  MapSeq(OrderBy(Filter(store.events, InWindow), Before), DashEventColumns)

\* .select("id, name, category, quantity, reorder_threshold")
DashItemColumns(row) == [id |-> row.id, name |-> row.name, category |-> row.category,
                         quantity |-> row.quantity,
                         reorder_threshold |-> row.reorder_threshold]

\* the rows of a query without .order(): the store may return them in any
\* order
AnyOrder(s) == {[i \in 1..Len(s) |-> s[p[i]]] : p \in Permutations(1..Len(s))}

dashInventorySelect == {MapSeq(rows, DashItemColumns) : rows \in AnyOrder(store.inventory_items)}

\* .select("id, title, month, is_done, notes").eq("month", currentMonthStr)
dashGoalsSelect(arg) ==
    LET OfMonth(row) == row.month = arg.currentMonthStr
    IN  MapSeq(Filter(store.goals, OfMonth), GoalColumns)

\* the replies of the three queries, in the order loadData reads them
DashReply(h) == net[CHOOSE i \in 1..Len(net) : net[i].h = h]

\* as loadDataResume, keeping the lists of the queries that succeeded
loadDataResumePartial ==
    LET eventsRes == DashReply("db.loadData.events")
        inventoryRes == DashReply("db.loadData.inventory")
        goalsRes == DashReply("db.loadData.goals")
        IsDash(r) == r.h \in {"db.loadData.events", "db.loadData.inventory", "db.loadData.goals"}
        Others(r) == ~IsDash(r)
        thrown == IF eventsRes.phase = "error" THEN eventsRes.data
                  ELSE IF inventoryRes.phase = "error" THEN inventoryRes.data
                  ELSE IF goalsRes.phase = "error" THEN goalsRes.data
                  ELSE Null
    IN  /\ \E i \in 1..Len(net) : IsDash(net[i])
        /\ \A i \in 1..Len(net) : IsDash(net[i]) => net[i].phase # "sent"
        /\ net' = Filter(net, Others)
        /\ db' = [db EXCEPT
                    !.events = IF eventsRes.phase = "ok" THEN eventsRes.data ELSE @,
                    !.inventory = IF inventoryRes.phase = "ok" THEN inventoryRes.data ELSE @,
                    !.goals = IF goalsRes.phase = "ok" THEN goalsRes.data ELSE @,
                    !.errorMsg = IF thrown # Null
                                 THEN OrElse(thrown, Msg("Error loading dashboard data"))
                                 ELSE @,
                    !.loading = FALSE]
        /\ last' = Ev("db.loadData", IF thrown # Null THEN "error" ELSE "ok")

\* loadData, from its await on Promise.all: the first error in the order
\* events, inventory, goals is thrown, else the three lists are set
loadDataResume ==
    LET eventsRes == DashReply("db.loadData.events")
        inventoryRes == DashReply("db.loadData.inventory")
        goalsRes == DashReply("db.loadData.goals")
        IsDash(r) == r.h \in {"db.loadData.events", "db.loadData.inventory", "db.loadData.goals"}
        Others(r) == ~IsDash(r)
        thrown == IF eventsRes.phase = "error" THEN eventsRes.data
                  ELSE IF inventoryRes.phase = "error" THEN inventoryRes.data
                  ELSE IF goalsRes.phase = "error" THEN goalsRes.data
                  ELSE Null
    IN  /\ \E i \in 1..Len(net) : IsDash(net[i])
        /\ \A i \in 1..Len(net) : IsDash(net[i]) => net[i].phase # "sent"
        /\ net' = Filter(net, Others)
        /\ IF thrown # Null
           THEN db' = [db EXCEPT
                    !.errorMsg = OrElse(thrown, Msg("Error loading dashboard data")),
                    !.loading = FALSE]
           ELSE db' = [db EXCEPT !.events = eventsRes.data,
                                 !.inventory = inventoryRes.data,
                                 !.goals = goalsRes.data,
                                 !.loading = FALSE]
        /\ last' = Ev("db.loadData", IF thrown # Null THEN "error" ELSE "ok")

lowItems == Filter(db.inventory, isLow)

IsOpen(g) == ~g.is_done
openGoals == Filter(db.goals, IsOpen)

\* the loop of eventCounts: the tallies after the events of es
RECURSIVE CountLoop(_, _)
CountLoop(es, counts) ==
    IF es = <<>> THEN counts
    ELSE LET e == Head(es)
             Plus(n, hit) == IF hit THEN n + 1 ELSE n
         IN  CountLoop(Tail(es),
                [counts EXCEPT !.market = Plus(@, e.type = Word("market")),
                               !.popup = Plus(@, e.type = Word("popup")),
                               !.catering = Plus(@, e.type = Word("catering")),
                               !.booked = Plus(@, e.status = Word("booked"))])

\* as eventCounts, with total counted up with the three types
eventCountsTotalByType ==
    LET c == CountLoop(db.events, [total |-> 0, market |-> 0, popup |-> 0,
                                   catering |-> 0, booked |-> 0])
    IN  [c EXCEPT !.total = c.market + c.popup + c.catering]

eventCounts ==
    CountLoop(db.events, [total |-> Len(db.events), market |-> 0, popup |-> 0,
                          catering |-> 0, booked |-> 0])

(***************************************************************************)
(* Events, NewEvent and EditEvent                                          *)
(***************************************************************************)

\* useState initial values of Events
EventsMount == [events |-> <<>>, loading |-> TRUE, errorMsg |-> Null, deletingId |-> Null]

\* .select("id, title, date, location, type, client_name, status")
EventColumns(row) == [id |-> row.id, title |-> row.title, date |-> row.date,
                      location |-> row.location, type |-> row.type,
                      client_name |-> row.client_name, status |-> row.status]

\* .order("date", asc)
eventsSelect ==
    LET Before(a, b) == a.date.v < b.date.v
    IN  MapSeq(OrderBy(store.events, Before), EventColumns)

\* loadEvents, from its await on
loadEventsResume(i) ==
    LET r == net[i] IN
    /\ r.h = "ev.loadEvents" /\ r.phase # "sent"
    /\ net' = RemoveAt(net, i)
    /\ IF r.phase = "error"
       THEN ev' = [ev EXCEPT !.errorMsg = r.data, !.loading = FALSE]
       ELSE ev' = [ev EXCEPT !.events = r.data, !.loading = FALSE]
    /\ alerted' = Null
    /\ last' = Ev("ev.loadEvents", r.phase)

\* handleDelete(id), up to its await; confirmed is the answer to window.confirm
handleDelete(id, confirmed) ==
    IF ~confirmed
    THEN /\ UNCHANGED <<ev, net, sent, quota>>
         /\ last' = Ev("ev.handleDelete", "declined")
    ELSE /\ quota > 0
         /\ ev' = [ev EXCEPT !.deletingId = Num(id)]
         /\ net' = Append(net, Request(sent + 1, "ev.handleDelete", [id |-> id]))
         /\ sent' = sent + 1 /\ quota' = quota - 1
         /\ last' = Ev("ev.handleDelete", "sent")

\* handleDelete, from its await on
handleDeleteResume(i) ==
    LET r == net[i] IN
    /\ r.h = "ev.handleDelete" /\ r.phase # "sent"
    /\ net' = RemoveAt(net, i)
    /\ IF r.phase = "error"
       THEN /\ alerted' = Alert("Error deleting event: ", r.data)
            /\ ev' = [ev EXCEPT !.deletingId = Null]
       ELSE /\ alerted' = Null
            /\ ev' = [ev EXCEPT !.events = DeleteWhereId(@, r.arg.id),
                                !.deletingId = Null]
    /\ last' = Ev("ev.handleDelete", r.phase)

\* the values of the options of the type and status <select>s, the same in
\* NewEvent and EditEvent
EVENT_TYPES == {Word("market"), Word("wedding"), Word("corporate"), Word("private"),
                Word("popup"), Word("other")}
STATUS_OPTIONS == {Word("inquiry"), Word("proposal_sent"), Word("booked"),
                   Word("completed"), Word("cancelled")}

\* useState initial values of NewEvent
NewEventMount == [
    title |-> <<>>, date |-> Str(<<>>), location |-> <<>>, eventType |-> Word("market"),
    clientName |-> <<>>, clientEmail |-> <<>>, clientPhone |-> <<>>,
    status |-> Word("inquiry"), notes |-> <<>>,
    isRecurring |-> FALSE, weeks |-> Num(4),
    error |-> Null, loading |-> FALSE ]

\* the row handleSubmit builds for the date nextDate
NewEventRow(nextDate) == [
    title |-> ne.title, date |-> formatDateForDB(nextDate), location |-> Str(ne.location),
    type |-> ne.eventType,
    client_name |-> TrimOrNull(ne.clientName),
    client_email |-> TrimOrNull(ne.clientEmail),
    client_phone |-> TrimOrNull(ne.clientPhone),
    status |-> ne.status, notes |-> TrimOrNull(ne.notes) ]

\* eventsToInsert: for (let i = 0; i < totalWeeks; i++) push the row of
\* addDays(baseDate, i * 7)
eventsToInsert ==
    LET baseDate == ParseDate(ne.date)
        totalWeeks == Max(Num(1), OrElse(ne.weeks, Num(1))).v
    IN  IF ne.isRecurring
        THEN [i \in 1..totalWeeks |-> NewEventRow(addDays(env.zone, baseDate, (i - 1) * 7))]
        ELSE <<NewEventRow(baseDate)>>

\* as NewEventFormValid, the title not required
NewEventFormValidWithoutTitle ==
    /\ ne.date # Str(<<>>)
    /\ ne.isRecurring => (ne.weeks.v >= 1 /\ ne.weeks.v <= 52)

\* <input required> on title and date, and <input type="number" min={1}
\* max={52}> on weeks while it is shown: the browser dispatches submit only
\* when these hold
NewEventFormValid ==
    /\ ne.title # <<>>
    /\ ne.date # Str(<<>>)
    /\ ne.isRecurring => (ne.weeks.v >= 1 /\ ne.weeks.v <= 52)

\* handleSubmit of NewEvent, up to its await
NewEvent_handleSubmit ==
    IF ~Truthy(ne.date)
    THEN /\ ne' = [ne EXCEPT !.error = Msg("Please pick a date."), !.loading = FALSE]
         /\ UNCHANGED <<net, sent, quota>>
         /\ last' = Ev("ne.handleSubmit", "rejected")
    ELSE /\ quota > 0
         /\ ne' = [ne EXCEPT !.loading = TRUE, !.error = Null]
         /\ net' = Append(net, Request(sent + 1, "ne.handleSubmit", eventsToInsert))
         /\ sent' = sent + 1 /\ quota' = quota - 1
         /\ last' = Ev("ne.handleSubmit", "sent")

\* the New event form is submitted
SubmitNewEvent ==
    /\ ~ne.loading
    /\ IF NewEventFormValid
       THEN NewEvent_handleSubmit
       ELSE UNCHANGED <<ne, net, sent, quota>> /\ last' = Ev("ne.handleSubmit", "blocked")

\* handleSubmit of NewEvent, from its await on
NewEvent_handleSubmitResume(i) ==
    LET r == net[i] IN
    /\ r.h = "ne.handleSubmit" /\ r.phase # "sent"
    /\ IF r.phase = "error"
       THEN /\ ne' = [ne EXCEPT !.error = OrElse(r.data, Msg("Something went wrong")),
                                !.loading = FALSE]
            /\ net' = RemoveAt(net, i)
            /\ UNCHANGED <<page, location, ev>>
       ELSE /\ ne' = Unmounted
            /\ location' = Location("/events", Null)
            /\ page' = "events"
            /\ ev' = EventsMount
            /\ net' = Append(RemoveAt(net, i), Request(0, "ev.loadEvents", Null))
    /\ alerted' = Null
    /\ last' = Ev("ne.handleSubmit", r.phase)

\* useState initial values of EditEvent, for the route parameter id
EditEventMount(id) == [
    id |-> id,
    title |-> <<>>, date |-> Str(<<>>), location |-> <<>>, eventType |-> Word("market"),
    clientName |-> <<>>, clientEmail |-> <<>>, clientPhone |-> <<>>,
    status |-> Word("inquiry"), notes |-> <<>>,
    loading |-> TRUE, saving |-> FALSE, error |-> Null ]

\* .select("id, title, date, location, type, client_name, client_email,
\*   client_phone, status, notes")
EditEventColumns(row) == [id |-> row.id, title |-> row.title, date |-> row.date,
                          location |-> row.location, type |-> row.type,
                          client_name |-> row.client_name,
                          client_email |-> row.client_email,
                          client_phone |-> row.client_phone,
                          status |-> row.status, notes |-> row.notes]

\* .eq("id", id): the rows .single() chooses from
eventById(id) == LET Is(row) == row.id = id IN Filter(store.events, Is)

\* loadEvent, from its await on
loadEventResume(i) ==
    LET r == net[i]
        data == r.data
    IN
    /\ r.h = "ee.loadEvent" /\ r.phase # "sent"
    /\ net' = RemoveAt(net, i)
    /\ IF r.phase = "error"
       THEN ee' = [ee EXCEPT !.error = r.data, !.loading = FALSE]
       ELSE ee' = [ee EXCEPT
                !.title = data.title,
                !.date = OrElse(data.date, Str(<<>>)),
                !.location = TextOrEmpty(data.location),
                !.eventType = OrElse(data.type, Word("market")),
                !.clientName = TextOrEmpty(data.client_name),
                !.clientEmail = TextOrEmpty(data.client_email),
                !.clientPhone = TextOrEmpty(data.client_phone),
                !.status = OrElse(data.status, Word("inquiry")),
                !.notes = TextOrEmpty(data.notes),
                !.loading = FALSE]
    /\ alerted' = Null
    /\ last' = Ev("ee.loadEvent", r.phase)

\* <input required> on title and date of the edit form
EditEventFormValid == ee.title # <<>> /\ ee.date # Str(<<>>)

\* handleSubmit of EditEvent, up to its await
EditEvent_handleSubmit ==
    IF ee.id = Undefined
    THEN /\ UNCHANGED <<ee, net, sent, quota>>
         /\ last' = Ev("ee.handleSubmit", "rejected")
    ELSE /\ quota > 0
         /\ ee' = [ee EXCEPT !.saving = TRUE, !.error = Null]
         /\ net' = Append(net, Request(sent + 1, "ee.handleSubmit",
                [id |-> ee.id.v,
                 patch |-> [title |-> ee.title, date |-> ee.date,
                            location |-> Str(ee.location), type |-> ee.eventType,
                            client_name |-> TrimOrNull(ee.clientName),
                            client_email |-> TrimOrNull(ee.clientEmail),
                            client_phone |-> TrimOrNull(ee.clientPhone),
                            status |-> ee.status, notes |-> TrimOrNull(ee.notes)]]))
         /\ sent' = sent + 1 /\ quota' = quota - 1
         /\ last' = Ev("ee.handleSubmit", "sent")

\* the edit form is submitted
SubmitEditEvent ==
    /\ ~ee.loading /\ ~ee.saving
    /\ IF EditEventFormValid
       THEN EditEvent_handleSubmit
       ELSE UNCHANGED <<ee, net, sent, quota>> /\ last' = Ev("ee.handleSubmit", "blocked")

\* handleSubmit of EditEvent, from its await on
EditEvent_handleSubmitResume(i) ==
    LET r == net[i] IN
    /\ r.h = "ee.handleSubmit" /\ r.phase # "sent"
    /\ IF r.phase = "error"
       THEN /\ ee' = [ee EXCEPT !.error = r.data, !.saving = FALSE]
            /\ net' = RemoveAt(net, i)
            /\ UNCHANGED <<page, location, ev>>
       ELSE /\ ee' = Unmounted
            /\ location' = Location("/events", Null)
            /\ page' = "events"
            /\ ev' = EventsMount
            /\ net' = Append(RemoveAt(net, i), Request(0, "ev.loadEvents", Null))
    /\ alerted' = Null
    /\ last' = Ev("ee.handleSubmit", r.phase)

(***************************************************************************)
(* The store client, the session, the route guard and the route table      *)
(***************************************************************************)

\* createClient(supabaseUrl, supabaseAnonKey)
createClient(supabaseUrl, supabaseAnonKey) ==
    [t |-> "client", v |-> <<supabaseUrl.v, supabaseAnonKey.v>>]

\* as supabaseClient, checking the URL only
supabaseClientUrlOnly(environment) ==
    LET supabaseUrl == environment.VITE_SUPABASE_URL
        supabaseAnonKey == environment.VITE_SUPABASE_ANON_KEY
    IN  IF ~Truthy(supabaseUrl)
        THEN Null
        ELSE createClient(supabaseUrl, supabaseAnonKey)

\* the module supabaseClient: the client it exports, Null when it throws
\* "Missing Supabase env vars. Check your .env file."
supabaseClient(environment) ==
    LET supabaseUrl == environment.VITE_SUPABASE_URL
        supabaseAnonKey == environment.VITE_SUPABASE_ANON_KEY
    IN  IF ~Truthy(supabaseUrl) \/ ~Truthy(supabaseAnonKey)
        THEN Null
        ELSE createClient(supabaseUrl, supabaseAnonKey)

\* useState of AuthProvider
AuthProviderMount == [session |-> Null, loading |-> TRUE]

\* what a component renders: a page, or a <Navigate to state replace />
Element(p) == [page |-> p, to |-> "", state |-> Null]
Navigate(to, state) == [page |-> "navigate", to |-> to, state |-> state]

\* state={{ from: location }}
From(loc) == [t |-> "state", v |-> loc]

\* as RequireAuth, letting a visitor without a session through
RequireAuthWithoutSession(a, loc, children) ==
    IF a.loading THEN Element("checking") ELSE children

\* RequireAuth around its children, at the location loc
RequireAuth(a, loc, children) ==
    IF a.loading THEN Element("checking")
    ELSE IF a.session = Null THEN Navigate("/login", From(loc))
    ELSE children

\* as Login, going back to the location the guard stored
LoginBackToStored(a) ==
    IF a.session # Null
    THEN IF location.state # Null
         THEN Navigate(location.state.v.pathname, Null)
         ELSE Navigate("/dashboard", Null)
    ELSE Element("login")

\* what Login renders: itself, or the way to the dashboard when signed in
Login(a) ==
    IF a.session # Null THEN Navigate("/dashboard", Null) ELSE Element("login")

\* the paths of the route table, /events/:id/edit for the ids 1 and 5
RouteTable == {"/login", "/", "/dashboard", "/events", "/events/new",
               "/events/1/edit", "/events/5/edit", "/inventory", "/goals", "/cash"}

\* the :id of an edit path
EditId(pathname) == IF pathname = "/events/1/edit" THEN 1 ELSE 5

\* as Outlet, the catch-all route leading to the dashboard
OutletCatchAllToDashboard(pathname) ==
    CASE pathname = "/" -> Navigate("/dashboard", Null)
      [] pathname = "/dashboard" -> Element("dashboard")
      [] pathname = "/events" -> Element("events")
      [] pathname = "/events/new" -> Element("new")
      [] pathname \in {"/events/1/edit", "/events/5/edit"} -> Element("edit")
      [] pathname = "/inventory" -> Element("inventory")
      [] pathname = "/goals" -> Element("goals")
      [] pathname = "/cash" -> Element("cash")
      [] OTHER -> Navigate("/dashboard", Null)

\* the child route of "/" that matches the path, rendered in the <Outlet />
Outlet(pathname) ==
    CASE pathname = "/" -> Navigate("/dashboard", Null)
      [] pathname = "/dashboard" -> Element("dashboard")
      [] pathname = "/events" -> Element("events")
      [] pathname = "/events/new" -> Element("new")
      [] pathname \in {"/events/1/edit", "/events/5/edit"} -> Element("edit")
      [] pathname = "/inventory" -> Element("inventory")
      [] pathname = "/goals" -> Element("goals")
      [] pathname = "/cash" -> Element("cash")
      [] OTHER -> Navigate("/login", Null)

\* <Routes> of App: what is rendered at the location loc for the auth state a
App(a, loc) ==
    IF loc.pathname = "/login" THEN Login(a)
    ELSE RequireAuth(a, loc, Outlet(loc.pathname))

\* useState of Login
LoginMount == [email |-> <<>>, password |-> <<>>, errorMsg |-> Null, loading |-> FALSE]

\* navItems of AppLayout
navItems == {"/dashboard", "/events", "/inventory", "/goals", "/cash"}

(***************************************************************************)
(* The store's side of a request                                           *)
(***************************************************************************)

\* .insert(rows): the rows with the columns the store fills in
InsertedRows(rows) ==
    [k \in 1..Len(rows) |-> rows[k] @@ [id |-> store.nextId + k - 1,
                                         created_at |-> store.nextId + k - 1]]

\* the tables after the store has carried out request r
Effect(r) ==
    CASE r.h = "cd.handleSave" ->
            [store EXCEPT !.cash_sessions = Append(@, InsertedRow(r.arg)),
                          !.nextId = @ + 1]
      [] r.h = "gl.handleAddGoal" ->
            [store EXCEPT !.goals = Append(@, InsertedRow(r.arg @@ [is_done |-> FALSE])),
                          !.nextId = @ + 1]
      [] r.h \in {"gl.toggleDone", "gl.saveEdit"} ->
            [store EXCEPT !.goals = UpdateWhereId(@, r.arg.id, r.arg.patch)]
      [] r.h = "gl.deleteGoal" ->
            [store EXCEPT !.goals = DeleteWhereId(@, r.arg.id)]
      [] r.h = "inv.handleAddItem" ->
            [store EXCEPT !.inventory_items = Append(@, InsertedRow(r.arg)),
                          !.nextId = @ + 1]
      [] r.h \in {"inv.saveEdit", "inv.adjustQuantity"} ->
            [store EXCEPT !.inventory_items = UpdateWhereId(@, r.arg.id, r.arg.patch)]
      [] r.h = "inv.deleteItem" ->
            [store EXCEPT !.inventory_items = DeleteWhereId(@, r.arg.id)]
      [] r.h = "ev.handleDelete" ->
            [store EXCEPT !.events = DeleteWhereId(@, r.arg.id)]
      [] r.h = "ne.handleSubmit" ->
            [store EXCEPT !.events = @ \o InsertedRows(r.arg),
                          !.nextId = @ + Len(r.arg)]
      [] r.h = "ee.handleSubmit" ->
            [store EXCEPT !.events = UpdateWhereId(@, r.arg.id, r.arg.patch)]
      [] r.h = "login.handleLogin" -> [store EXCEPT !.session = Session]
      [] r.h = "lay.handleLogout" -> [store EXCEPT !.session = Null]
      [] OTHER -> store

\* the data the store may return for request r when it succeeds; a .single()
\* query succeeds only when it finds its row
Answers(r) ==
    CASE r.h = "cd.loadSessions" -> {cashSessionsSelect}
      [] r.h = "cd.handleSave" -> {CashColumns(InsertedRow(r.arg))}
      [] r.h = "gl.loadGoals" -> {goalsSelect}
      [] r.h = "gl.handleAddGoal" ->
            {GoalColumns(InsertedRow(r.arg @@ [is_done |-> FALSE]))}
      [] r.h = "inv.loadItems" -> {inventorySelect}
      [] r.h = "inv.handleAddItem" -> {ItemColumns(InsertedRow(r.arg))}
      [] r.h = "db.loadData.events" -> {dashEventsSelect(r.arg)}
      [] r.h = "db.loadData.inventory" -> dashInventorySelect
      [] r.h = "db.loadData.goals" -> {dashGoalsSelect(r.arg)}
      [] r.h = "ev.loadEvents" -> {eventsSelect}
      [] r.h = "ee.loadEvent" -> {EditEventColumns(row) : row \in Elements(eventById(r.arg.id))}
      [] r.h = "auth.getSession" -> {store.session}
      [] r.h = "login.handleLogin" -> {Session}
      [] OTHER -> {Null}

\* the store answers request i: with an error and no effect, or with the
\* effect and the data of Serve
storeReply(i) ==
    /\ net[i].phase = "sent"
    /\ \/ \E m \in ErrorMessages :
            /\ net' = [net EXCEPT ![i].phase = "error", ![i].data = Msg(m)]
            /\ UNCHANGED store
       \/ \E data \in Answers(net[i]) :
            /\ net' = [net EXCEPT ![i].phase = "ok", ![i].data = data]
            /\ store' = Effect(net[i])
    /\ alerted' = Null
    /\ last' = Ev("store", net'[i].phase)
    /\ UNCHANGED <<client, auth, location, login, page, env, cd, inv, gl, db, ne, ev, ee,
                   sent, quota>>

(***************************************************************************)
(* The screens: what the browser, the user and the store can do            *)
(***************************************************************************)

\* the browser's clock (2025-03-07T09:00Z) and zone
Env(zone) ==
    [now |-> 24 * 10 + 9, zone |-> zone,
     VITE_SUPABASE_URL |-> Str(<<"u">>), VITE_SUPABASE_ANON_KEY |-> Str(<<"k">>)]

EmptyStore == [cash_sessions |-> <<>>, inventory_items |-> <<>>, goals |-> <<>>,
               events |-> <<>>, nextId |-> 1, session |-> Null]

\* the requests a screen sends when it mounts
MountRequests(p, id) ==
    CASE p = "cash" -> <<Request(0, "cd.loadSessions", Null)>>
      [] p = "goals" -> <<Request(0, "gl.loadGoals", Null)>>
      [] p = "inventory" -> <<Request(0, "inv.loadItems", Null)>>
      [] p = "dashboard" -> loadDataRequests
      [] p = "events" -> <<Request(0, "ev.loadEvents", Null)>>
      [] p = "edit" -> <<Request(0, "ee.loadEvent", [id |-> id])>>
      [] OTHER -> <<>>

\* the path of a route of the table
PathOf(p, id) ==
    CASE p = "cash" -> "/cash"
      [] p = "goals" -> "/goals"
      [] p = "inventory" -> "/inventory"
      [] p = "dashboard" -> "/dashboard"
      [] p = "events" -> "/events"
      [] p = "new" -> "/events/new"
      [] p = "edit" -> IF id = 1 THEN "/events/1/edit" ELSE "/events/5/edit"

\* the route p is on the page of a signed-in user, in the browser e, against
\* the tables st; id is the :id of the edit route
OpenAt(p, e, st, id) ==
    /\ env = e
    /\ client = supabaseClient(env)
    /\ auth = [session |-> Session, loading |-> FALSE]
    /\ location = Location(PathOf(p, id), Null)
    /\ login = Unmounted
    /\ page = p
    /\ store = [st EXCEPT !.session = Session]
    /\ cd = IF p = "cash" THEN CashDrawerMount ELSE Unmounted
    /\ gl = IF p = "goals" THEN GoalsMount ELSE Unmounted
    /\ inv = IF p = "inventory" THEN InventoryMount ELSE Unmounted
    /\ db = IF p = "dashboard" THEN DashboardMount ELSE Unmounted
    /\ ev = IF p = "events" THEN EventsMount ELSE Unmounted
    /\ ne = IF p = "new" THEN NewEventMount ELSE Unmounted
    /\ ee = IF p = "edit" THEN EditEventMount(Num(id)) ELSE Unmounted
    /\ net = MountRequests(p, id)
    /\ sent = 0
    /\ alerted = Null
    /\ last = Ev("mount", "ok")

\* the same at 2025-03-07T09:00Z, in a browser of the zone
Open(p, zone, st, id) == OpenAt(p, Env(zone), st, id)

StoreReply == \E i \in 1..Len(net) : storeReply(i)

\* ---------------------------------------------------------------- cash --

CashStore ==
    [EmptyStore EXCEPT
        !.cash_sessions = << [id |-> 1, created_at |-> 1, date |-> DateStr(9),
                              opening_total |-> Num(10), closing_total |-> Num(30),
                              stall_fee |-> Num(2), payouts |-> Num(3),
                              notes |-> Null] >>,
        !.nextId = 2]

\* what the user can type into a count field of the sheet
CountInputs == {<<>>, <<"2">>, <<"3">>, <<"-", "1">>, <<"x">>}
FeeInputs == {<<>>, <<"2">>, <<"-", "1">>}
PayoutInputs == {<<>>, <<"3">>}

Filled == Cardinality(DOMAIN cd.openingCounts) + Cardinality(DOMAIN cd.closingCounts)

CashFrame == UNCHANGED <<client, auth, location, login, page, env, inv, gl, db, ne, ev, ee, store>>

CashOnly ==
    /\ CashFrame
    /\ UNCHANGED <<net, sent, quota>>
    /\ alerted' = Null
    /\ last' = Ev("type", "ok")

TypeCount ==
    /\ page = "cash"
    /\ \E which \in {"opening", "closing"}, i \in 1..Len(DENOMS), value \in CountInputs :
        /\ LET counts == IF which = "opening" THEN cd.openingCounts ELSE cd.closingCounts
           IN  toString(DENOMS[i].value) \in DOMAIN counts \/ Filled < MaxFilled
        /\ handleCountChange(which, DENOMS[i].value, value)
        /\ CashOnly

TypeStallFee == \E value \in FeeInputs : page = "cash" /\ setStallFee(value) /\ CashOnly

TypePayouts == \E value \in PayoutInputs : page = "cash" /\ setPayouts(value) /\ CashOnly

NextCalc == TypeCount \/ TypeStallFee \/ TypePayouts

InitCalc == Open("cash", "UTC", EmptyStore, 0) /\ quota = 0

SpecCalc == InitCalc /\ [][NextCalc]_vars

\* sheets the user fills in before saving: counts, fee, payouts and notes
CashSheets == {
    [openingCounts |-> (<<"5">> :> <<"2">>), closingCounts |-> (<<"1", "0">> :> <<"3">>),
     stallFee |-> <<"2">>, payouts |-> <<"3">>, notes |-> <<" ", "n">>],
    [openingCounts |-> (<<"5">> :> <<"2">>), closingCounts |-> (<<"1", "0">> :> <<"3">>),
     stallFee |-> <<"-", "1">>, payouts |-> <<>>, notes |-> <<>>] }

Cash_FillSheet ==
    /\ page = "cash"
    /\ \E f \in CashSheets :
        /\ cd' = [cd EXCEPT !.openingCounts = f.openingCounts,
                            !.closingCounts = f.closingCounts,
                            !.stallFee = f.stallFee, !.payouts = f.payouts,
                            !.notes = f.notes]
        /\ CashOnly

Cash_Submit == page = "cash" /\ SubmitCash /\ alerted' = Null /\ CashFrame

Cash_Resume ==
    /\ page = "cash"
    /\ \E i \in 1..Len(net) :
        /\ (loadSessionsResume(i) \/ handleSaveResume(i))
        /\ alerted' = Null
        /\ UNCHANGED <<sent, quota>> /\ CashFrame

NextCash == Cash_FillSheet \/ Cash_Submit \/ Cash_Resume \/ StoreReply

InitCash == Open("cash", "UTC", CashStore, 0) /\ quota = MaxRequests

SpecCash == InitCash /\ [][NextCash]_vars

\* --------------------------------------------------------------- goals --

GoalRow(id, month, done) ==
    [id |-> id, created_at |-> id, title |-> <<"t">>, month |-> month,
     is_done |-> done, notes |-> Null]

GoalsStore ==
    [EmptyStore EXCEPT
        !.goals = <<GoalRow(1, Mar, FALSE), GoalRow(2, Jan, TRUE)>>,
        !.nextId = 3]

\* what the user types into the Add goal form, and over the loaded values of
\* the edit form
NewGoalForms == {
    [title |-> <<"t">>, month |-> Nov, notes |-> <<" ">>],
    [title |-> <<>>,    month |-> Nov, notes |-> <<>>],
    [title |-> <<"t">>, month |-> <<>>, notes |-> <<>>] }

EditGoalForms == {
    [title |-> <<"t">>, month |-> Nov, notes |-> <<"n", " ">>],
    [title |-> <<>>,    month |-> Jan, notes |-> <<>>],
    [title |-> <<"t">>, month |-> <<>>, notes |-> <<>>] }

GoalsFrame == UNCHANGED <<client, auth, location, login, page, env, cd, inv, db, ne, ev, ee, store>>

\* typing leaves the requests alone
GoalsTyping == GoalsFrame /\ UNCHANGED <<net, sent, quota>> /\ alerted' = Null /\ last' = Ev("type", "ok")

\* the rows the screen shows with their view-mode controls
GoalShown(g) == ~gl.loading /\ (g.is_done \/ gl.editingId # Num(g.id))
\* the row the screen shows as an edit form
GoalInEdit(g) == ~gl.loading /\ ~g.is_done /\ gl.editingId = Num(g.id)

\* onChange of the Add goal form's inputs
Goals_TypeNew ==
    /\ page = "goals"
    /\ \E f \in NewGoalForms :
        /\ gl' = [gl EXCEPT !.newTitle = f.title, !.newMonth = f.month, !.newNotes = f.notes]
        /\ GoalsTyping

\* onChange of the edit form's inputs
Goals_TypeEdit ==
    /\ page = "goals"
    /\ \E f \in EditGoalForms :
        /\ \E k \in 1..Len(gl.goals) : GoalInEdit(gl.goals[k])
        /\ gl' = [gl EXCEPT !.editTitle = f.title, !.editMonth = f.month, !.editNotes = f.notes]
        /\ GoalsTyping

Goals_Submit == page = "goals" /\ SubmitAddGoal /\ alerted' = Null /\ GoalsFrame

Goals_ClickToggle ==
    /\ page = "goals"
    /\ \E k \in 1..Len(gl.goals) :
        /\ GoalShown(gl.goals[k])
        /\ gl.togglingId # Num(gl.goals[k].id)
        /\ toggleDone(gl.goals[k])
        /\ alerted' = Null /\ GoalsFrame

Goals_ClickDelete ==
    /\ page = "goals"
    /\ \E k \in 1..Len(gl.goals), confirmed \in BOOLEAN :
        /\ GoalShown(gl.goals[k])
        /\ deleteGoal(gl.goals[k].id, confirmed)
        /\ alerted' = Null /\ GoalsFrame

Goals_ClickEdit ==
    /\ page = "goals"
    /\ \E k \in 1..Len(gl.goals) :
        /\ GoalShown(gl.goals[k]) /\ ~gl.goals[k].is_done
        /\ Goals_startEdit(gl.goals[k])
        /\ last' = Ev("gl.startEdit", "ok")
        /\ UNCHANGED <<net, sent, quota>> /\ alerted' = Null /\ GoalsFrame

Goals_ClickCancel ==
    /\ page = "goals"
    /\ \E k \in 1..Len(gl.goals) : GoalInEdit(gl.goals[k])
    /\ Goals_cancelEdit
    /\ last' = Ev("gl.cancelEdit", "ok")
    /\ UNCHANGED <<net, sent, quota>> /\ alerted' = Null /\ GoalsFrame

Goals_ClickSave ==
    /\ page = "goals"
    /\ \E k \in 1..Len(gl.goals) :
        /\ GoalInEdit(gl.goals[k]) /\ ~gl.savingEdit
        /\ Goals_saveEdit(gl.goals[k].id)
        /\ alerted' = Null /\ GoalsFrame

Goals_Resume ==
    /\ page = "goals"
    /\ \E i \in 1..Len(net) :
        /\ \/ loadGoalsResume(i) /\ alerted' = Null
           \/ handleAddGoalResume(i)
           \/ toggleDoneResume(i)
           \/ deleteGoalResume(i)
           \/ Goals_saveEditResume(i)
        /\ UNCHANGED <<sent, quota>> /\ GoalsFrame

NextGoals ==
    \/ Goals_TypeNew \/ Goals_TypeEdit \/ Goals_Submit
    \/ Goals_ClickToggle \/ Goals_ClickDelete
    \/ Goals_ClickEdit \/ Goals_ClickCancel \/ Goals_ClickSave
    \/ Goals_Resume \/ StoreReply

InitGoals == Open("goals", "UTC", GoalsStore, 0) /\ quota = MaxRequests

SpecGoals == InitGoals /\ [][NextGoals]_vars

\* ----------------------------------------------------------- inventory --

beans == <<"b", "e", "a", "n", "s">>
milk == <<"m", "i", "l", "k">>

ItemRow(id, name, category, quantity, threshold) ==
    [id |-> id, created_at |-> id, name |-> name, category |-> category,
     unit |-> <<"u">>, quantity |-> quantity, reorder_threshold |-> threshold,
     notes |-> Null]

\* a shelf with an item at its threshold and an item without a threshold
InventoryStore ==
    [EmptyStore EXCEPT
        !.inventory_items = << ItemRow(1, <<"b">>, milk, 2, 2),
                               ItemRow(2, <<"a">>, beans, 0, 0) >>,
        !.nextId = 3]

NewItemForms == {
    [name |-> <<"c">>, unit |-> <<"u">>, quantity |-> <<"1">>, threshold |-> <<"3">>,
     notes |-> <<" ">>],
    [name |-> <<>>, unit |-> <<"u">>, quantity |-> <<>>, threshold |-> <<>>, notes |-> <<>>],
    [name |-> <<"c">>, unit |-> <<>>, quantity |-> <<>>, threshold |-> <<>>, notes |-> <<>>] }

EditItemForms == {
    [name |-> <<"c">>, unit |-> <<"u">>, quantity |-> <<"4">>, threshold |-> <<"1">>,
     notes |-> <<"n">>],
    [name |-> <<>>, unit |-> <<"u">>, quantity |-> <<"1">>, threshold |-> <<>>, notes |-> <<>>],
    [name |-> <<"c">>, unit |-> <<>>, quantity |-> <<"1">>, threshold |-> <<>>, notes |-> <<>>],
    [name |-> <<"c">>, unit |-> <<"u">>, quantity |-> <<"-", "1">>, threshold |-> <<>>,
     notes |-> <<>>] }

InventoryFrame == UNCHANGED <<client, auth, location, login, page, env, cd, gl, db, ne, ev, ee, store>>

InventoryTyping ==
    InventoryFrame /\ UNCHANGED <<net, sent, quota>> /\ alerted' = Null /\ last' = Ev("type", "ok")

\* the rows the table shows in view mode and as an edit form
ItemShown(item) == ~inv.loading /\ inv.editingId # Num(item.id)
ItemInEdit(item) == ~inv.loading /\ inv.editingId = Num(item.id)

Inventory_TypeNew ==
    /\ page = "inventory"
    /\ \E f \in NewItemForms :
        /\ inv' = [inv EXCEPT !.newName = f.name, !.newUnit = f.unit,
                              !.newQuantity = Str(f.quantity),
                              !.newThreshold = Str(f.threshold),
                              !.newNotes = f.notes]
        /\ InventoryTyping

Inventory_TypeEdit ==
    /\ page = "inventory"
    /\ \E f \in EditItemForms :
        /\ \E k \in 1..Len(inv.items) : ItemInEdit(inv.items[k])
        /\ inv' = [inv EXCEPT !.editName = f.name, !.editUnit = f.unit,
                              !.editQuantity = Str(f.quantity),
                              !.editThreshold = Str(f.threshold),
                              !.editNotes = f.notes]
        /\ InventoryTyping

Inventory_Submit == page = "inventory" /\ SubmitAddItem /\ alerted' = Null /\ InventoryFrame

Inventory_ClickAdjust ==
    /\ page = "inventory"
    /\ \E k \in 1..Len(inv.items), delta \in {0 - 1, 1} :
        /\ ItemShown(inv.items[k])
        /\ inv.updatingQtyId # Num(inv.items[k].id)
        /\ delta = 0 - 1 => inv.items[k].quantity > 0
        /\ adjustQuantity(inv.items[k], delta)
        /\ alerted' = Null /\ InventoryFrame

Inventory_ClickDelete ==
    /\ page = "inventory"
    /\ \E k \in 1..Len(inv.items), confirmed \in BOOLEAN :
        /\ ItemShown(inv.items[k])
        /\ inv.deletingId # Num(inv.items[k].id)
        /\ deleteItem(inv.items[k].id, confirmed)
        /\ alerted' = Null /\ InventoryFrame

Inventory_ClickEdit ==
    /\ page = "inventory"
    /\ \E k \in 1..Len(inv.items) :
        /\ ItemShown(inv.items[k])
        /\ Inventory_startEdit(inv.items[k])
        /\ last' = Ev("inv.startEdit", "ok")
        /\ UNCHANGED <<net, sent, quota>> /\ alerted' = Null /\ InventoryFrame

Inventory_ClickCancel ==
    /\ page = "inventory"
    /\ \E k \in 1..Len(inv.items) : ItemInEdit(inv.items[k])
    /\ inv' = Inventory_cancelEdit
    /\ last' = Ev("inv.cancelEdit", "ok")
    /\ UNCHANGED <<net, sent, quota>> /\ alerted' = Null /\ InventoryFrame

Inventory_ClickSave ==
    /\ page = "inventory"
    /\ \E k \in 1..Len(inv.items) :
        /\ ItemInEdit(inv.items[k]) /\ ~inv.savingEdit
        /\ Inventory_saveEdit(inv.items[k].id)
        /\ alerted' = Null /\ InventoryFrame

Inventory_Resume ==
    /\ page = "inventory"
    /\ \E i \in 1..Len(net) :
        /\ \/ loadItemsResume(i)
           \/ handleAddItemResume(i)
           \/ Inventory_saveEditResume(i)
           \/ deleteItemResume(i)
           \/ adjustQuantityResume(i)
        /\ UNCHANGED <<sent, quota>> /\ InventoryFrame

NextInventory ==
    \/ Inventory_TypeNew \/ Inventory_TypeEdit \/ Inventory_Submit
    \/ Inventory_ClickAdjust \/ Inventory_ClickDelete
    \/ Inventory_ClickEdit \/ Inventory_ClickCancel \/ Inventory_ClickSave
    \/ Inventory_Resume \/ StoreReply

\* the Inventory screen once loadItems has shown the rows of the store
InitInventoryLoaded ==
    /\ env = Env("UTC")
    /\ client = supabaseClient(env)
    /\ auth = [session |-> Session, loading |-> FALSE]
    /\ location = Location(PathOf("inventory", 0), Null)
    /\ login = Unmounted
    /\ page = "inventory"
    /\ store = [InventoryStore EXCEPT !.session = Session]
    /\ inv = [InventoryMount EXCEPT !.items = inventorySelect, !.loading = FALSE]
    /\ cd = Unmounted /\ gl = Unmounted /\ db = Unmounted
    /\ ev = Unmounted /\ ne = Unmounted /\ ee = Unmounted
    /\ net = <<>>
    /\ sent = 0 /\ quota = MaxRequests
    /\ alerted = Null
    /\ last = Ev("inv.loadItems", "ok")

SpecInventoryLoaded == InitInventoryLoaded /\ [][NextInventory]_vars

\* the Inventory screen with its quantity buttons only
NextAdjust == Inventory_ClickAdjust \/ Inventory_Resume \/ StoreReply

InitAdjust == Open("inventory", "UTC", InventoryStore, 0) /\ quota = MaxAdjustments

SpecAdjust == InitAdjust /\ [][NextAdjust]_vars

InitInventory == Open("inventory", "UTC", InventoryStore, 0) /\ quota = MaxRequests

SpecInventory == InitInventory /\ [][NextInventory]_vars

\* ----------------------------------------------------------- dashboard --

EventRow(id, date, type, status) ==
    [id |-> id, created_at |-> id, title |-> <<"t">>, date |-> DateStr(date),
     location |-> Null, type |-> type, client_name |-> Null, client_email |-> Null,
     client_phone |-> Null, status |-> status, notes |-> Null]

\* tables behind the Dashboard: events inside and outside the window, of
\* counted and uncounted types; items in an order that is not by category
DashboardStores == {
    [EmptyStore EXCEPT
        !.events = << EventRow(1, 12, Word("market"), Word("booked")),
                      EventRow(2, 11, Word("wedding"), Word("inquiry")),
                      EventRow(3, 9, Word("popup"), Word("booked")) >>,
        !.inventory_items = << ItemRow(4, <<"b">>, milk, 2, 2),
                               ItemRow(5, <<"a">>, beans, 0, 1),
                               ItemRow(6, <<"c">>, beans, 0, 0) >>,
        !.goals = << GoalRow(7, Mar, FALSE), GoalRow(8, Jan, FALSE) >>,
        !.nextId = 9],
    [EmptyStore EXCEPT
        !.events = << EventRow(1, 10, Word("catering"), Null),
                      EventRow(2, 40, Null, Word("booked")),
                      EventRow(3, 41, Word("market"), Word("booked")) >>,
        !.inventory_items = << ItemRow(4, <<"a">>, beans, 5, 2) >>,
        !.nextId = 5] }

DashboardFrame == UNCHANGED <<client, auth, location, login, page, env, cd, inv, gl, ne, ev, ee, store, sent, quota>>

Dashboard_Resume == page = "dashboard" /\ loadDataResume /\ alerted' = Null /\ DashboardFrame

NextDashboard == Dashboard_Resume \/ StoreReply

\* the hours of 2025-03-07 (UTC) at which the Dashboard is opened: midnight,
\* which is the evening of the 6th in New York, and 09:00
DashboardHours == {0, 9}

InitDashboard ==
    \E zone \in Zones, st \in DashboardStores, hour \in DashboardHours :
        /\ OpenAt("dashboard", [Env(zone) EXCEPT !.now = 24 * 10 + hour], st, 0)
        /\ quota = 0

SpecDashboard == InitDashboard /\ [][NextDashboard]_vars

\* -------------------------------------------------------------- events --

EventsStore ==
    [EmptyStore EXCEPT
        !.events = << EventRow(1, 12, Word("market"), Word("booked")),
                      EventRow(2, 11, Null, Null) >>,
        !.nextId = 3]

EventsFrame == UNCHANGED <<client, auth, location, login, page, env, cd, inv, gl, db, ne, ee, store>>

Events_ClickDelete ==
    /\ page = "events"
    /\ \E k \in 1..Len(ev.events), confirmed \in BOOLEAN :
        /\ ~ev.loading /\ ~Truthy(ev.errorMsg)
        /\ ev.deletingId # Num(ev.events[k].id)
        /\ handleDelete(ev.events[k].id, confirmed)
        /\ alerted' = Null /\ EventsFrame

Events_Resume ==
    /\ page = "events"
    /\ \E i \in 1..Len(net) :
        /\ (loadEventsResume(i) \/ handleDeleteResume(i))
        /\ UNCHANGED <<sent, quota>> /\ EventsFrame

NextEvents == Events_ClickDelete \/ Events_Resume \/ StoreReply

InitEvents == Open("events", "UTC", EventsStore, 0) /\ quota = MaxRequests

SpecEvents == InitEvents /\ [][NextEvents]_vars

\* ----------------------------------------------------------- new event --

\* what the user fills in on the New event form: start dates before and
\* after the change to summer time, with and without weekly repeats
NewEventForms == {
    [title |-> <<"t">>, date |-> DateStr(11), isRecurring |-> TRUE, weeks |-> <<"2">>],
    [title |-> <<"t">>, date |-> DateStr(13), isRecurring |-> TRUE, weeks |-> <<"3">>],
    [title |-> <<"t">>, date |-> DateStr(11), isRecurring |-> TRUE, weeks |-> <<>>],
    [title |-> <<"t">>, date |-> DateStr(11), isRecurring |-> FALSE, weeks |-> <<"2">>],
    [title |-> <<>>, date |-> DateStr(11), isRecurring |-> FALSE, weeks |-> <<"1">>],
    [title |-> <<"t">>, date |-> Str(<<>>), isRecurring |-> FALSE, weeks |-> <<"1">>] }

NewEventFrame == UNCHANGED <<client, auth, login, env, cd, inv, gl, db, ee, store>>

\* onChange of title, date, the repeat box and weeks (setWeeks(Number(value)))
NewEvent_Type ==
    /\ page = "new"
    /\ \E f \in NewEventForms :
        /\ ne' = [ne EXCEPT !.title = f.title, !.date = f.date,
                            !.isRecurring = f.isRecurring,
                            !.weeks = Number(Str(f.weeks)),
                            !.notes = <<" ">>]
        /\ UNCHANGED <<page, location, ev, net, sent, quota>> /\ alerted' = Null
        /\ last' = Ev("type", "ok")
        /\ NewEventFrame

NewEvent_Submit ==
    /\ page = "new" /\ SubmitNewEvent
    /\ UNCHANGED <<page, location, ev>> /\ alerted' = Null /\ NewEventFrame

NewEvent_Resume ==
    /\ page = "new"
    /\ \E i \in 1..Len(net) :
        /\ NewEvent_handleSubmitResume(i)
        /\ UNCHANGED <<sent, quota>> /\ NewEventFrame

NextNewEvent == NewEvent_Type \/ NewEvent_Submit \/ NewEvent_Resume \/ NextEvents

InitNewEvent ==
    \E zone \in Zones : Open("new", zone, EventsStore, 0) /\ quota = MaxRequests

SpecNewEvent == InitNewEvent /\ [][NextNewEvent]_vars

\* ---------------------------------------------------------- edit event --

EditEventForms == {
    [title |-> <<"s">>, date |-> DateStr(14)],
    [title |-> <<>>, date |-> DateStr(14)],
    [title |-> <<"s">>, date |-> Str(<<>>)] }

EditEventFrame == UNCHANGED <<client, auth, login, env, cd, inv, gl, db, ne, store>>

\* the edit form is on the page: loading is over and no error is shown
EditFormShown == ~ee.loading /\ ~Truthy(ee.error)

EditEvent_Type ==
    /\ page = "edit"
    /\ \E f \in EditEventForms :
        /\ EditFormShown
        /\ ee' = [ee EXCEPT !.title = f.title, !.date = f.date]
        /\ UNCHANGED <<page, location, ev, net, sent, quota>> /\ alerted' = Null
        /\ last' = Ev("type", "ok")
        /\ EditEventFrame

EditEvent_Submit ==
    /\ page = "edit" /\ EditFormShown /\ SubmitEditEvent
    /\ UNCHANGED <<page, location, ev>> /\ alerted' = Null /\ EditEventFrame

EditEvent_Resume ==
    /\ page = "edit"
    /\ \E i \in 1..Len(net) :
        /\ \/ loadEventResume(i) /\ UNCHANGED <<page, location, ev>>
           \/ EditEvent_handleSubmitResume(i)
        /\ UNCHANGED <<sent, quota>> /\ EditEventFrame

NextEditEvent == EditEvent_Type \/ EditEvent_Submit \/ EditEvent_Resume \/ NextEvents

\* the edit route of an event that exists and of one that does not
InitEditEvent ==
    \E id \in {1, 5} : Open("edit", "UTC", EventsStore, id) /\ quota = MaxRequests

SpecEditEvent == InitEditEvent /\ [][NextEditEvent]_vars


\* -------------------------------------------------------------- routes --

\* requests that belong to no page: a page's own requests end with the page
OutlivesPage(r) == r.h \in {"auth.getSession", "lay.handleLogout", "login.handleLogin"}

\* the sign-in and sign-out requests in flight
SessionRequests == Cardinality({k \in 1..Len(net) :
                        net[k].h \in {"lay.handleLogout", "login.handleLogin"}})

\* a handleLogin whose Login has left the page resumes without a component
Orphaned(r) == IF r.h = "login.handleLogin" THEN [r EXCEPT !.arg.live = FALSE] ELSE r

\* React commits the auth state a and the location loc: the element of the
\* route table is rendered, a page that leaves is unmounted and the page that
\* enters is mounted and sends its first requests; pending are the requests
\* in flight
Commit(a, loc, pending) ==
    LET p == App(a, loc).page
        id == EditId(loc.pathname)
    IN  /\ auth' = a
        /\ location' = loc
        /\ page' = p
        /\ IF p = page
           THEN /\ UNCHANGED <<cd, gl, inv, db, ev, ne, ee, login>>
                /\ net' = pending
           ELSE /\ cd' = IF p = "cash" THEN CashDrawerMount ELSE Unmounted
                /\ gl' = IF p = "goals" THEN GoalsMount ELSE Unmounted
                /\ inv' = IF p = "inventory" THEN InventoryMount ELSE Unmounted
                /\ db' = IF p = "dashboard" THEN DashboardMount ELSE Unmounted
                /\ ev' = IF p = "events" THEN EventsMount ELSE Unmounted
                /\ ne' = IF p = "new" THEN NewEventMount ELSE Unmounted
                /\ ee' = IF p = "edit" THEN EditEventMount(Num(id)) ELSE Unmounted
                /\ login' = IF p = "login" THEN LoginMount ELSE Unmounted
                /\ net' = MapSeq(Filter(pending, OutlivesPage), Orphaned) \o MountRequests(p, id)

RoutesFrame == alerted' = Null /\ UNCHANGED <<client, env, store, sent, quota>>

\* load of AuthProvider, from its await on getSession
AuthProvider_loadResume(i) ==
    LET r == net[i]
        session == IF r.phase = "ok" THEN r.data ELSE Null
    IN  /\ r.h = "auth.getSession" /\ r.phase # "sent"
        /\ Commit([session |-> session, loading |-> FALSE], location, RemoveAt(net, i))
        /\ last' = Ev("auth.load", r.phase)

Routes_AuthLoaded ==
    /\ client # Null
    /\ \E i \in 1..Len(net) : AuthProvider_loadResume(i)
    /\ RoutesFrame

\* the callback of onAuthStateChange: the auth service reports its session
Routes_AuthStateChange ==
    /\ client # Null
    /\ auth.session # store.session
    /\ Commit([auth EXCEPT !.session = store.session], location, net)
    /\ last' = Ev("auth.onAuthStateChange", "ok")
    /\ RoutesFrame

\* the effect of a rendered <Navigate to state replace />
Routes_Navigate ==
    /\ client # Null
    /\ page = "navigate"
    /\ LET el == App(auth, location)
       IN  Commit(auth, Location(el.to, el.state), net)
    /\ last' = Ev("Navigate", "ok")
    /\ RoutesFrame

\* AppLayout is on the page: the guard has let its children through
AppLayoutShown ==
    location.pathname # "/login" /\ RequireAuth(auth, location, Element("layout")).page = "layout"

\* a click on a <Link> of the navigation bar
Routes_ClickLink ==
    /\ client # Null
    /\ AppLayoutShown
    /\ \E to \in navItems : Commit(auth, Location(to, Null), net)
    /\ last' = Ev("Link", "ok")
    /\ RoutesFrame

\* handleLogout of AppLayout, to its await
handleLogout ==
    /\ net' = Append(net, Request(0, "lay.handleLogout", Null))
    /\ last' = Ev("lay.handleLogout", "sent")

\* handleLogout, from its await on: nothing is left to do
handleLogoutResume(i) ==
    /\ net[i].h = "lay.handleLogout" /\ net[i].phase # "sent"
    /\ net' = RemoveAt(net, i)
    /\ last' = Ev("lay.handleLogout", net[i].phase)

RoutesPagesFrame == UNCHANGED <<auth, location, page, login, cd, gl, inv, db, ev, ne, ee>>

Routes_ClickLogout ==
    /\ client # Null
    /\ AppLayoutShown
    /\ SessionRequests < MaxPending
    /\ handleLogout
    /\ RoutesPagesFrame /\ RoutesFrame

Routes_LogoutResume ==
    /\ client # Null
    /\ \E i \in 1..Len(net) : handleLogoutResume(i)
    /\ RoutesPagesFrame /\ RoutesFrame

\* --------------------------------------------------------------- login --

\* what the user types into the sign-in form
LoginForms == {
    [email |-> <<"a", "@", "b">>, password |-> <<"p">>],
    [email |-> <<"a">>, password |-> <<"p">>],
    [email |-> <<"a", "@", "b">>, password |-> <<>>] }

\* <input type="email" required> and <input type="password" required>
LoginFormValid ==
    /\ login.email # <<>> /\ \E k \in 2..(Len(login.email) - 1) : login.email[k] = "@"
    /\ login.password # <<>>

\* handleLogin, to its await
handleLogin ==
    /\ login' = [login EXCEPT !.loading = TRUE, !.errorMsg = Null]
    /\ net' = Append(net, Request(0, "login.handleLogin",
                [email |-> login.email, password |-> login.password, live |-> TRUE]))
    /\ last' = Ev("login.handleLogin", "sent")

\* as handleLoginResume, leaving the flag set after an error
handleLoginResumeStillLoading(i) ==
    LET r == net[i] IN
    /\ r.h = "login.handleLogin" /\ r.phase # "sent"
    /\ login' = IF ~r.arg.live THEN login
                ELSE IF r.phase = "error"
                THEN [login EXCEPT !.errorMsg = OrElse(r.data, Msg("Error signing in"))]
                ELSE [login EXCEPT !.loading = FALSE]
    /\ net' = RemoveAt(net, i)
    /\ last' = Ev("login.handleLogin", r.phase)

\* handleLogin, from its await on; the setters of a Login that has left the
\* page change nothing
handleLoginResume(i) ==
    LET r == net[i] IN
    /\ r.h = "login.handleLogin" /\ r.phase # "sent"
    /\ login' = IF ~r.arg.live THEN login
                ELSE IF r.phase = "error"
                THEN [login EXCEPT !.errorMsg = OrElse(r.data, Msg("Error signing in")),
                                   !.loading = FALSE]
                ELSE [login EXCEPT !.loading = FALSE]
    /\ net' = RemoveAt(net, i)
    /\ last' = Ev("login.handleLogin", r.phase)

LoginFrame == UNCHANGED <<auth, location, page, cd, gl, inv, db, ev, ne, ee>> /\ RoutesFrame

Login_Type ==
    /\ page = "login"
    /\ \E f \in LoginForms : login' = [login EXCEPT !.email = f.email, !.password = f.password]
    /\ last' = Ev("type", "ok")
    /\ UNCHANGED net /\ LoginFrame

\* a click on "Sign in": the button is disabled while loading, the browser
\* holds the submit back while a required field is invalid
Login_Submit ==
    /\ page = "login"
    /\ ~login.loading
    /\ SessionRequests < MaxPending
    /\ IF LoginFormValid
       THEN handleLogin
       ELSE UNCHANGED <<login, net>> /\ last' = Ev("login.handleLogin", "blocked")
    /\ LoginFrame

Login_Resume ==
    /\ client # Null
    /\ \E i \in 1..Len(net) : handleLoginResume(i)
    /\ LoginFrame

\* the paths a user may enter in the address bar
EnteredPaths == RouteTable \cup {"/nope"}

\* what the build may have in a variable: nothing, the empty string, a value
EnvValues == {Undefined, Str(<<>>), Str(<<"v">>)}

\* ------------------------------------------------- the two event forms --

\* what the user picks in the two <select>s, among their options
EventChoices == {c \in [type : EVENT_TYPES, status : STATUS_OPTIONS] :
                    \/ c.type = Word("popup") /\ c.status = Word("booked")
                    \/ c.type = Word("other") /\ c.status = Word("cancelled")}

\* onChange of the type and status <select>s: setEventType(e.target.value),
\* setStatus(e.target.value)
NewEvent_Select ==
    /\ page = "new"
    /\ \E c \in EventChoices :
        /\ ne' = [ne EXCEPT !.eventType = c.type, !.status = c.status]
        /\ UNCHANGED <<page, location, ev, net, sent, quota>> /\ alerted' = Null
        /\ last' = Ev("select", "ok")
        /\ NewEventFrame

EditEvent_Select ==
    /\ page = "edit"
    /\ \E c \in EventChoices :
        /\ EditFormShown
        /\ ee' = [ee EXCEPT !.eventType = c.type, !.status = c.status]
        /\ UNCHANGED <<page, location, ev, net, sent, quota>> /\ alerted' = Null
        /\ last' = Ev("select", "ok")
        /\ EditEventFrame

\* the events table as the forms have left it, and with a row of a type
\* that is not among the options
EventFormsStores == {
    EventsStore,
    [EmptyStore EXCEPT
        !.events = << EventRow(1, 12, Word("catering"), Word("booked")) >>,
        !.nextId = 2] }

InitEventForms ==
    /\ \E st \in EventFormsStores :
        Open("new", "UTC", st, 0) \/ Open("edit", "UTC", st, 1)
    /\ quota = MaxRequestsApp

NextEventForms ==
    \/ NewEvent_Type \/ NewEvent_Select \/ NewEvent_Submit \/ NewEvent_Resume
    \/ EditEvent_Type \/ EditEvent_Select \/ EditEvent_Submit \/ EditEvent_Resume
    \/ NextEvents

SpecEventForms == InitEventForms /\ [][NextEventForms]_vars

\* the app is started: main renders <App /> inside AuthProvider, whose
\* effect asks for the session
InitRoutes ==
    \E url \in EnvValues, key \in EnvValues, pathname \in EnteredPaths,
       session \in {Null, Session} :
        /\ env = [Env("UTC") EXCEPT !.VITE_SUPABASE_URL = url,
                                    !.VITE_SUPABASE_ANON_KEY = key]
        /\ client = supabaseClient(env)
        /\ store = [EventsStore EXCEPT !.session = session]
        /\ auth = AuthProviderMount
        /\ location = Location(pathname, Null)
        /\ page = IF client = Null THEN "none" ELSE App(auth, location).page
        /\ login = IF page = "login" THEN LoginMount ELSE Unmounted
        /\ cd = Unmounted /\ gl = Unmounted /\ inv = Unmounted /\ db = Unmounted
        /\ ev = Unmounted /\ ne = Unmounted /\ ee = Unmounted
        /\ net = IF client = Null THEN <<>> ELSE <<Request(0, "auth.getSession", Null)>>
        /\ sent = 0 /\ quota = 0
        /\ alerted = Null
        /\ last = Ev("mount", "ok")

NextRoutes ==
    \/ Routes_AuthLoaded \/ Routes_AuthStateChange \/ Routes_Navigate
    \/ Routes_ClickLink \/ Routes_ClickLogout \/ Routes_LogoutResume
    \/ Login_Type \/ Login_Submit \/ Login_Resume
    \/ Cash_Resume \/ Goals_Resume \/ Inventory_Resume \/ Dashboard_Resume
    \/ Events_Resume \/ EditEvent_Resume
    \/ StoreReply

SpecRoutes == InitRoutes /\ [][NextRoutes]_vars

\* ------------------------------------------------------------- the app --

\* the login page is on the screen of a visitor without a session
OpenLogin(st) ==
    /\ env = Env("UTC")
    /\ client = supabaseClient(env)
    /\ auth = [session |-> Null, loading |-> FALSE]
    /\ location = Location("/login", Null)
    /\ page = App(auth, location).page
    /\ login = LoginMount
    /\ store = [st EXCEPT !.session = Null]
    /\ cd = Unmounted /\ gl = Unmounted /\ inv = Unmounted /\ db = Unmounted
    /\ ev = Unmounted /\ ne = Unmounted /\ ee = Unmounted
    /\ net = <<>>
    /\ sent = 0
    /\ alerted = Null
    /\ last = Ev("mount", "ok")

\* any screen of the app, opened on its route
Init ==
    /\ \/ Open("cash", "UTC", CashStore, 0)
       \/ Open("goals", "UTC", GoalsStore, 0)
       \/ Open("inventory", "UTC", InventoryStore, 0)
       \/ \E zone \in Zones, st \in DashboardStores : Open("dashboard", zone, st, 0)
       \/ Open("events", "UTC", EventsStore, 0)
       \/ \E zone \in Zones : Open("new", zone, EventsStore, 0)
       \/ \E id \in {1, 5} : Open("edit", "UTC", EventsStore, id)
       \/ \E st \in DashboardStores : OpenLogin(st)
    /\ quota = MaxRequestsApp

Next ==
    \/ Cash_FillSheet \/ Cash_Submit \/ Cash_Resume
    \/ Goals_TypeNew \/ Goals_TypeEdit \/ Goals_Submit
    \/ Goals_ClickToggle \/ Goals_ClickDelete
    \/ Goals_ClickEdit \/ Goals_ClickCancel \/ Goals_ClickSave \/ Goals_Resume
    \/ Inventory_TypeNew \/ Inventory_TypeEdit \/ Inventory_Submit
    \/ Inventory_ClickAdjust \/ Inventory_ClickDelete
    \/ Inventory_ClickEdit \/ Inventory_ClickCancel \/ Inventory_ClickSave
    \/ Inventory_Resume
    \/ Dashboard_Resume
    \/ Events_ClickDelete \/ Events_Resume
    \/ NewEvent_Type \/ NewEvent_Submit \/ NewEvent_Resume
    \/ EditEvent_Type \/ EditEvent_Submit \/ EditEvent_Resume
    \/ Login_Type \/ Login_Submit \/ Login_Resume
    \/ Routes_AuthStateChange \/ Routes_Navigate
    \/ StoreReply

Spec == Init /\ [][Next]_vars

(***************************************************************************)
(* Claims about the cash arithmetic                                        *)
(***************************************************************************)

\* the count entered for a denomination: 0 when the entry is missing, empty
\* or not a number
EnteredCount(counts, value) ==
    LET key == toString(value) IN
    IF key \notin DOMAIN counts THEN 0
    ELSE IF IsNum(StringToNumber(counts[key])) THEN StringToNumber(counts[key]).v
    ELSE 0

SumOfCounts(counts) ==
      EnteredCount(counts, 100) * 100 + EnteredCount(counts, 50) * 50
    + EnteredCount(counts, 20) * 20 + EnteredCount(counts, 10) * 10
    + EnteredCount(counts, 5) * 5 + EnteredCount(counts, 1) * 1

\* C1: for every mapping of the six denominations to entered count strings,
\* computeTotal is >= 0 and equals the sum of count * value, a missing,
\* empty or non-numeric entry counting 0.
C1_TotalIsNonNegativeSum ==
    /\ openingTotal = Num(SumOfCounts(cd.openingCounts))
    /\ closingTotal = Num(SumOfCounts(cd.closingCounts))
    /\ openingTotal.v >= 0
    /\ closingTotal.v >= 0

\* a blank amount, or an amount >= 0
AmountOk(text) == text = <<>> \/ (IsNum(StringToNumber(text)) /\ StringToNumber(text).v >= 0)

AmountOf(text) == IF text = <<>> THEN 0 ELSE StringToNumber(text).v

\* C2: with stall fee and payouts blank or >= 0, the net cash the form
\* shows is total(closing) - total(opening) - fee - payouts.
C2_NetCash ==
    (AmountOk(cd.stallFee) /\ AmountOk(cd.payouts)) =>
        netCash = Num(SumOfCounts(cd.closingCounts) - SumOfCounts(cd.openingCounts)
                      - AmountOf(cd.stallFee) - AmountOf(cd.payouts))

\* C2's example: opening {5: 2}, closing {10: 3}, fee 2, payouts 3 give 15
C2_Example ==
    /\ DOMAIN cd.openingCounts = {<<"5">>} /\ cd.openingCounts[<<"5">>] = <<"2">>
    /\ DOMAIN cd.closingCounts = {<<"1", "0">>} /\ cd.closingCounts[<<"1", "0">>] = <<"3">>
    /\ cd.stallFee = <<"2">> /\ cd.payouts = <<"3">>
    /\ netCash = Num(15)

(***************************************************************************)
(* Claims about low stock                                                  *)
(***************************************************************************)

\* reorder_threshold > 0 and quantity <= reorder_threshold
AtOrBelowThreshold(item) == item.reorder_threshold > 0 /\ item.quantity <= item.reorder_threshold

\* C3: on the Dashboard and on the Inventory screen an item is reported low
\* iff its reorder_threshold is > 0 and its quantity is <= the threshold, by
\* isLow and by the count behind lowCount; an item whose threshold is 0 is
\* never low.
C3_LowIffAtOrBelowThreshold ==
    /\ page = "dashboard" =>
          \A i \in 1..Len(db.inventory) :
              /\ isLow(db.inventory[i]) <=> AtOrBelowThreshold(db.inventory[i])
              /\ db.inventory[i].reorder_threshold = 0 => ~isLow(db.inventory[i])
    /\ page = "inventory" =>
          /\ \A i \in 1..Len(inv.items) :
              /\ Inventory_isLow(inv.items[i]) <=> AtOrBelowThreshold(inv.items[i])
              /\ inv.items[i].reorder_threshold = 0 => ~Inventory_isLow(inv.items[i])
          /\ lowCount = Cardinality({i \in 1..Len(inv.items) : AtOrBelowThreshold(inv.items[i])})

\* the Dashboard holds an item exactly at its threshold, reported low, and
\* an item of quantity 0 without a threshold, not reported
C3_Example ==
    /\ page = "dashboard" /\ ~db.loading
    /\ \E i \in 1..Len(db.inventory) :
          /\ db.inventory[i].quantity = db.inventory[i].reorder_threshold
          /\ isLow(db.inventory[i])
    /\ \E i \in 1..Len(db.inventory) :
          /\ db.inventory[i].reorder_threshold = 0 /\ db.inventory[i].quantity = 0
          /\ ~isLow(db.inventory[i])

\* C6: the Dashboard's low-stock list is the items of the loaded list for
\* which isLow holds, in the order of the loaded list, and the loaded list
\* is sorted by category, then name.
C6_LowItemsOfSortedList ==
    (page = "dashboard" /\ ~db.loading) =>
        /\ lowItems = SelectSeq(db.inventory, AtOrBelowThreshold)
        /\ \A i, j \in 1..Len(db.inventory) :
              i < j => ~ByCategoryThenName(db.inventory[j], db.inventory[i])

(***************************************************************************)
(* Claims about the grouping of goals                                      *)
(***************************************************************************)

RECURSIVE Flatten(_)
Flatten(entries) ==
    IF entries = <<>> THEN <<>> ELSE Head(entries)[2] \o Flatten(Tail(entries))

Occurrences(s, x) == Cardinality({i \in 1..Len(s) : s[i] = x})

\* C4: no bucket of groupActiveByMonth holds a goal with is_done true, and
\* the goals of all buckets together with completedGoals are the input goals,
\* each input goal in exactly one of the two and exactly as often as in the
\* input.
C4_BucketsAndCompletedPartition ==
    page = "goals" =>
        LET inBuckets == Flatten(activeByMonth) IN
        /\ \A i \in 1..Len(inBuckets) : ~inBuckets[i].is_done
        /\ Elements(inBuckets) \cap Elements(completedGoals) = {}
        /\ \A g \in Elements(gl.goals) \cup Elements(inBuckets) \cup Elements(completedGoals) :
              Occurrences(inBuckets, g) + Occurrences(completedGoals, g)
                  = Occurrences(gl.goals, g)

\* a loaded list with a completed goal and two active goals of one month
C4_Example ==
    /\ page = "goals" /\ ~gl.loading
    /\ Len(completedGoals) >= 1
    /\ \E i \in 1..Len(activeByMonth) : Len(activeByMonth[i][2]) >= 2
    /\ Len(activeByMonth) >= 2

\* C5: the buckets of groupActiveByMonth have distinct month keys in
\* strictly ascending order, every goal of a bucket has the bucket's month,
\* and a bucket lists its goals in the order of the input list.
C5_BucketsAscendingInInputOrder ==
    page = "goals" =>
        LET entries == activeByMonth IN
        /\ \A i, j \in 1..Len(entries) : i < j => StrLess(entries[i][1], entries[j][1])
        /\ \A i \in 1..Len(entries) :
              LET InBucket(g) == ~g.is_done /\ g.month = entries[i][1]
              IN  /\ entries[i][2] = SelectSeq(gl.goals, InBucket)
                  /\ entries[i][2] # <<>>

\* an input list that names a later month before an earlier one, as in the
\* spec's example 4
C5_Example ==
    /\ page = "goals" /\ ~gl.loading
    /\ \E i, j \in 1..Len(gl.goals) :
          /\ i < j /\ ~gl.goals[i].is_done /\ ~gl.goals[j].is_done
          /\ StrLess(gl.goals[j].month, gl.goals[i].month)
    /\ Len(activeByMonth) >= 2
    /\ Len(completedGoals) >= 1

(***************************************************************************)
(* Claims about the event tallies                                          *)
(***************************************************************************)

NumberOf(events, Test(_)) == Cardinality({i \in 1..Len(events) : Test(events[i])})

\* C7: eventCounts.total is the number of events the Dashboard holds,
\* market, popup and catering are the numbers of events of exactly that
\* type, booked is the number of events whose status is booked; so the three
\* types together, and booked, are at most total.
C7_EventCountsTally ==
    page = "dashboard" =>
        LET IsMarket(e) == e.type = Word("market")
            IsPopup(e) == e.type = Word("popup")
            IsCatering(e) == e.type = Word("catering")
            IsBooked(e) == e.status = Word("booked")
        IN  /\ eventCounts.total = Len(db.events)
            /\ eventCounts.market = NumberOf(db.events, IsMarket)
            /\ eventCounts.popup = NumberOf(db.events, IsPopup)
            /\ eventCounts.catering = NumberOf(db.events, IsCatering)
            /\ eventCounts.booked = NumberOf(db.events, IsBooked)
            /\ eventCounts.market + eventCounts.popup + eventCounts.catering
                  <= eventCounts.total
            /\ eventCounts.booked <= eventCounts.total

\* the Dashboard holds a booked event, a counted type and an event of a type
\* that is not counted
C7_Example ==
    /\ page = "dashboard" /\ ~db.loading
    /\ eventCounts.total >= 2
    /\ eventCounts.booked >= 1
    /\ eventCounts.market + eventCounts.popup + eventCounts.catering >= 1
    /\ eventCounts.market + eventCounts.popup + eventCounts.catering < eventCounts.total

(***************************************************************************)
(* Claims about the weekly batch                                           *)
(***************************************************************************)

\* the fields of an event row other than its date
WithoutDate(row) == [f \in DOMAIN row \ {"date"} |-> row[f]]

\* C8: a submission of the New event form sends one insert; with "repeat
\* weekly" on and w weeks it has max(1, w) rows, row i (from 0) dated the
\* start date + 7 * i days, the rows alike in every other field; with it
\* off it has one row dated the start date.
C8_WeeklyBatch ==
    [][ (last'.e = "ne.handleSubmit" /\ last'.r = "sent") =>
            LET rows == net'[Len(net')].arg
                n == IF ne.isRecurring
                     THEN (IF ne.weeks.v > 1 THEN ne.weeks.v ELSE 1)
                     ELSE 1
            IN  /\ Len(net') = Len(net) + 1
                /\ Len(rows) = n
                /\ \A i \in 1..Len(rows) :
                      /\ rows[i].date = DateStr(ne.date.v + 7 * (i - 1))
                      /\ WithoutDate(rows[i]) = WithoutDate(rows[1]) ]_vars

(***************************************************************************)
(* Claims about failed and refused requests                                *)
(***************************************************************************)

\* the list of rows the screen on the page holds
RowList ==
    CASE page = "inventory" -> inv.items
      [] page = "goals" -> gl.goals
      [] page = "events" -> ev.events
      [] page = "cash" -> cd.sessions
      [] OTHER -> <<>>

\* the values the inputs of the screen's forms hold
FormInputs ==
    CASE page = "inventory" ->
            <<inv.newName, inv.newCategory, inv.newUnit, inv.newQuantity,
              inv.newThreshold, inv.newNotes, inv.editingId, inv.editName,
              inv.editCategory, inv.editUnit, inv.editQuantity, inv.editThreshold,
              inv.editNotes>>
      [] page = "goals" ->
            <<gl.newTitle, gl.newMonth, gl.newNotes, gl.editingId, gl.editTitle,
              gl.editMonth, gl.editNotes>>
      [] page = "cash" ->
            <<cd.date, cd.openingCounts, cd.closingCounts, cd.stallFee, cd.payouts,
              cd.notes>>
      [] OTHER -> <<>>

\* the handlers that create, update, delete or adjust, and where each shows
\* its error: in the screen's error text or in an alert
ErrorTextHandlers == {"inv.handleAddItem", "inv.saveEdit", "gl.handleAddGoal",
                      "gl.saveEdit", "cd.handleSave"}
AlertHandlers == {"inv.deleteItem", "inv.adjustQuantity", "gl.toggleDone",
                  "gl.deleteGoal", "ev.handleDelete"}

ErrorText ==
    CASE page = "inventory" -> inv.errorMsg
      [] page = "goals" -> gl.errorMsg
      [] page = "cash" -> cd.errorMsg
      [] OTHER -> Null

\* C9: when the request of a create, update, delete or adjust handler of
\* Inventory, Goals, Events or CashDrawer returns an error, the handler
\* leaves the screen's list of rows as it was when the action began, shows
\* an error message and does not reset the inputs of the forms.
C9_ErrorLeavesListAndInputs ==
    [][ /\ (last'.e \in ErrorTextHandlers \cup AlertHandlers /\ last'.r = "sent") =>
              RowList' = RowList
        /\ (last'.e \in ErrorTextHandlers \cup AlertHandlers /\ last'.r = "error") =>
              /\ RowList' = RowList
              /\ FormInputs' = FormInputs
              /\ last'.e \in ErrorTextHandlers => Truthy(ErrorText')
              /\ last'.e \in AlertHandlers => alerted' # Null ]_vars

\* a failed save of an edited inventory item: the error text is shown and
\* the edit form still holds what was typed
C9_Example ==
    /\ page = "inventory"
    /\ last = Ev("inv.saveEdit", "error")
    /\ Truthy(inv.errorMsg)
    /\ inv.editingId # Null /\ inv.editName = <<"c">>
    /\ Len(inv.items) = 2

\* a required field of the form a handler reads is empty
RequiredFieldEmpty(handler) ==
    CASE handler = "inv.handleAddItem" -> inv.newName = <<>> \/ inv.newUnit = <<>>
      [] handler = "inv.saveEdit" -> inv.editName = <<>> \/ inv.editUnit = <<>>
      [] handler = "gl.handleAddGoal" -> gl.newTitle = <<>> \/ gl.newMonth = <<>>
      [] handler = "gl.saveEdit" -> gl.editTitle = <<>> \/ gl.editMonth = <<>>
      [] handler = "ne.handleSubmit" -> ne.title = <<>> \/ ne.date = Str(<<>>)
      [] handler = "ee.handleSubmit" -> ee.title = <<>> \/ ee.date = Str(<<>>)
      [] OTHER -> FALSE

FormHandlers == {"inv.handleAddItem", "inv.saveEdit", "gl.handleAddGoal", "gl.saveEdit",
                 "ne.handleSubmit", "ee.handleSubmit"}

\* C10: when a form of Inventory (add, edit), Goals (add, edit), NewEvent
\* or EditEvent is submitted with a required field empty, no request is
\* issued and the screen's list and the store stay as they are.
C10_EmptyRequiredFieldSendsNothing ==
    [][ (/\ last'.e \in FormHandlers
         /\ last'.r \notin {"ok", "error"}
         /\ RequiredFieldEmpty(last'.e)) =>
            /\ net' = net /\ sent' = sent /\ store' = store
            /\ RowList' = RowList ]_vars

\* the New event form submitted without a title, the date filled in
C10_Example ==
    /\ page = "new"
    /\ last = Ev("ne.handleSubmit", "blocked")
    /\ ne.title = <<>> /\ ne.date # Str(<<>>)
    /\ sent = 0 /\ Len(net) = 0


(***************************************************************************)
(* Deleting a row                                                          *)
(***************************************************************************)

DeleteHandlers == {"inv.deleteItem", "gl.deleteGoal", "ev.handleDelete"}

\* the component states of the three screens that delete
ScreenStates == <<inv, gl, ev>>

\* the rows of a list other than the row with the id, in the list's order
RowsOtherThan(rows, id) ==
    LET keep == {k \in 1..Len(rows) : rows[k].id # id}
        nth(n) == CHOOSE k \in keep : Cardinality({j \in keep : j <= k}) = n
    IN  [n \in 1..Cardinality(keep) |-> rows[nth(n)]]

\* C11: deleteItem, deleteGoal and handleDelete send a delete request only
\* when the user answers yes to the confirmation; when the user declines,
\* nothing is sent and the screen's state is unchanged; when the request
\* succeeds, the list loses the row with that id and nothing else, the
\* other rows staying in their order.
C11_DeleteAfterConfirmation ==
    [][ /\ (last'.e \in DeleteHandlers /\ last'.r = "declined") =>
              /\ net' = net /\ sent' = sent /\ store' = store
              /\ ScreenStates' = ScreenStates
        /\ (Len(net') > Len(net) /\ net'[Len(net')].h \in DeleteHandlers) =>
              /\ last' = Ev(net'[Len(net')].h, "sent")
              /\ RowList' = RowList
        /\ (last'.e \in DeleteHandlers /\ last'.r = "ok") =>
              \E i \in 1..Len(net) :
                  /\ net[i].h = last'.e /\ net' = RemoveAt(net, i)
                  /\ RowList' = RowsOtherThan(RowList, net[i].arg.id) ]_vars

\* a goal deleted from a list of two, the other goal left
C11_Example ==
    /\ page = "goals"
    /\ last = Ev("gl.deleteGoal", "ok")
    /\ Len(gl.goals) = 1
    /\ Len(store.goals) = 1


(***************************************************************************)
(* Updating a row                                                          *)
(***************************************************************************)

UpdateHandlers == {"inv.saveEdit", "inv.adjustQuantity", "gl.saveEdit", "gl.toggleDone"}

\* row as it is after the patch has been merged into it
Patched(before, after, patch) ==
    /\ DOMAIN after = DOMAIN before
    /\ \A f \in DOMAIN before :
          after[f] = IF f \in DOMAIN patch THEN patch[f] ELSE before[f]

\* C12: when the request of saveEdit or adjustQuantity (Inventory) or of
\* saveEdit or toggleDone (Goals) succeeds, the row with the patched id holds
\* the values of the patch that was sent and its other fields as before,
\* every other row and the length and order of the list are as before, and
\* no request is issued.
C12_UpdateMergesPatch ==
    [][ (last'.e \in UpdateHandlers /\ last'.r = "ok") =>
            \E i \in 1..Len(net) :
                /\ net[i].h = last'.e
                /\ net' = RemoveAt(net, i) /\ sent' = sent
                /\ Len(RowList') = Len(RowList)
                /\ \A k \in 1..Len(RowList) :
                      IF RowList[k].id = net[i].arg.id
                      THEN Patched(RowList[k], RowList'[k], net[i].arg.patch)
                      ELSE RowList'[k] = RowList[k] ]_vars

\* an inventory item renamed by a saved edit, the list still of two items
C12_Example ==
    /\ page = "inventory"
    /\ last = Ev("inv.saveEdit", "ok")
    /\ Len(inv.items) = 2
    /\ \E k \in 1..2 : inv.items[k].name = <<"c">>
    /\ \E k \in 1..2 : inv.items[k].name # <<"c">>


(***************************************************************************)
(* Creating a row                                                          *)
(***************************************************************************)

CreateHandlers == {"inv.handleAddItem", "gl.handleAddGoal", "cd.handleSave"}

\* the request a step has taken off the queue
Answered(i) == i \in 1..Len(net) /\ net[i].h = last'.e /\ net' = RemoveAt(net, i)

\* C13: when a create of handleAddItem, handleAddGoal or handleSave
\* succeeds, the row the store returned is appended to the end of the
\* screen's list, once, the rows already listed keeping values and order.
C13_CreateAppendsRow ==
    [][ (last'.e \in CreateHandlers /\ last'.r = "ok") =>
            \E i \in 1..Len(net) :
                Answered(i) /\ RowList' = Append(RowList, net[i].data) ]_vars

\* C13 as amended: the handler puts the returned row into the list once, at
\* the end of the list on Inventory and Goals and at the front of the list
\* on CashDrawer, the rows already listed keeping values and order.
C13_CreateAddsRowOnce ==
    [][ (last'.e \in CreateHandlers /\ last'.r = "ok") =>
            \E i \in 1..Len(net) :
                /\ Answered(i)
                /\ RowList' = IF last'.e = "cd.handleSave"
                              THEN <<net[i].data>> \o RowList
                              ELSE Append(RowList, net[i].data) ]_vars

\* a cash session saved while an earlier session is listed: the new one is
\* first
C13_Example ==
    /\ page = "cash"
    /\ last = Ev("cd.handleSave", "ok")
    /\ Len(cd.sessions) >= 2
    /\ cd.sessions[1].id = store.nextId - 1


(***************************************************************************)
(* Claims about the route guard and the route table                        *)
(***************************************************************************)

ProtectedPages == {"dashboard", "events", "new", "edit", "inventory", "goals", "cash"}

\* a location under the guard, in an app that has started
Guarded == client # Null /\ location.pathname # "/login"

Unmatched == client # Null /\ location.pathname \notin RouteTable

Present(x) == x # Undefined /\ x # Str(<<>>)

\* C16: the store client exists exactly when the store URL and the key are
\* both present and non-empty, and is then created from the two; otherwise
\* initialization has thrown: there is no client, nothing is rendered and
\* nothing is requested
C16_ClientNeedsUrlAndKey ==
    /\ client # Null <=> (Present(env.VITE_SUPABASE_URL) /\ Present(env.VITE_SUPABASE_ANON_KEY))
    /\ client # Null => client = createClient(env.VITE_SUPABASE_URL, env.VITE_SUPABASE_ANON_KEY)
    /\ client = Null => (page = "none" /\ net = <<>> /\ sent = 0)

\* the URL is set and the key is the empty string: no client
C16_Example ==
    /\ env.VITE_SUPABASE_URL = Str(<<"v">>) /\ env.VITE_SUPABASE_ANON_KEY = Str(<<>>)
    /\ client = Null


(***************************************************************************)
(* Claims about the requests the handlers issue                            *)
(***************************************************************************)

\* the handlers that write to the store
MutationHandlers == {"cd.handleSave", "gl.handleAddGoal", "gl.toggleDone", "gl.saveEdit",
                     "gl.deleteGoal", "inv.handleAddItem", "inv.saveEdit",
                     "inv.adjustQuantity", "inv.deleteItem", "ev.handleDelete",
                     "ne.handleSubmit", "ee.handleSubmit"}

\* the write requests among the requests s, and those not yet answered
Writes(s) == Cardinality({k \in 1..Len(s) : s[k].h \in MutationHandlers})
WritesWaiting(s) ==
    Cardinality({k \in 1..Len(s) : s[k].h \in MutationHandlers /\ s[k].phase = "sent"})

\* C17: a step in which a handler accepts a user action adds exactly one
\* request, that handler's write, and counts it; no other step (a rejected
\* or declined action, an answer of the store, a handler resuming after
\* success or failure, typing) adds a write or counts one: the writes sent
\* are as many as the actions accepted
C17_OneWritePerAcceptedAction ==
    [][ IF last'.e \in MutationHandlers /\ last'.r = "sent"
        THEN /\ Len(net') = Len(net) + 1
             /\ SubSeq(net', 1, Len(net)) = net
             /\ net'[Len(net')].h = last'.e /\ net'[Len(net')].phase = "sent"
             /\ sent' = sent + 1
        ELSE /\ sent' = sent
             /\ Writes(net') <= Writes(net)
             /\ WritesWaiting(net') <= WritesWaiting(net) ]_vars

\* adding a goal has failed, the handler has shown the error, and the one
\* write the run has sent is not in flight again
C17_Example ==
    /\ page = "goals" /\ last = Ev("gl.handleAddGoal", "error")
    /\ sent = 1 /\ Writes(net) = 0 /\ ~gl.savingNew


(***************************************************************************)
(* Claims about saved cash sessions                                        *)
(***************************************************************************)

\* the amounts of a cash session
Amounts(s) == <<s.opening_total, s.closing_total, s.stall_fee, s.payouts>>

\* C18: the session handleSave sends holds the totals computeTotal gives
\* for the counts on the sheet at that moment, and amounts whose net is the
\* net cash the sheet shows; the store keeps these amounts in the row it
\* adds and returns them; the row handleSave then puts into the recent
\* sessions table has the amounts of the stored row, so the Net column
\* shows the net cash of the sheet at the time of saving
C18_SavedSessionKeepsNet ==
    [][ /\ last' = Ev("cd.handleSave", "sent") =>
            LET s == net'[Len(net')].arg
            IN  /\ s.opening_total = computeTotal(cd.openingCounts)
                /\ s.closing_total = computeTotal(cd.closingCounts)
                /\ sessionNet(s) = netCash
        /\ \A i \in 1..Len(net) :
            (net[i].h = "cd.handleSave" /\ net[i].phase = "sent" /\ Len(net') = Len(net)
                /\ net'[i].phase = "ok") =>
                LET row == store'.cash_sessions[Len(store'.cash_sessions)]
                IN  /\ store'.cash_sessions = Append(store.cash_sessions, row)
                    /\ Amounts(row) = Amounts(net[i].arg)
                    /\ net'[i].data = CashColumns(row)
        /\ last' = Ev("cd.handleSave", "ok") =>
            \E i \in 1..Len(net) :
                /\ Answered(i)
                /\ cd'.sessions[1] = net[i].data
                /\ sessionNet(cd'.sessions[1]) = sessionNet(net[i].arg)
                /\ \E k \in 1..Len(store.cash_sessions) :
                        CashColumns(store.cash_sessions[k]) = cd'.sessions[1] ]_vars

\* a sheet with opening 10, closing 30, fee 2 and payouts 3 has been saved
\* and heads the recent sessions with a net of 15
C18_Example ==
    /\ page = "cash" /\ last = Ev("cd.handleSave", "ok")
    /\ Amounts(cd.sessions[1]) = <<Num(10), Num(30), Num(2), Num(3)>>
    /\ sessionNet(cd.sessions[1]) = Num(15)


(***************************************************************************)
(* Claims about the Dashboard's window of events                           *)
(***************************************************************************)

\* the events of the store dated from the day `today` to 30 days later, both
\* included, by ascending date, with the columns the Dashboard selects
EventsOfWindow(today) ==
    LET InWindow(row) == row.date.v >= today /\ row.date.v <= today + 30
        Before(a, b) == a.date.v < b.date.v
    IN  MapSeq(OrderBy(Filter(store.events, InWindow), Before), DashEventColumns)

\* C19: after a successful load the Dashboard holds exactly the store's
\* events dated from today (the day loadData calls today, the UTC day of the
\* clock) to today + 30 days, both included, in ascending date order
C19_EventsOfNext30Days ==
    (page = "dashboard" /\ last = Ev("db.loadData", "ok")) =>
        db.events = EventsOfWindow(toISODate(env.now).v)


(***************************************************************************)
(* Claims about the in-flight flags                                        *)
(***************************************************************************)

\* the submit handlers with an in-flight flag: the handler, its component
\* and the flag
InFlightFlags == {
    [h |-> "inv.handleAddItem", c |-> "inv", f |-> "savingNew"],
    [h |-> "inv.saveEdit", c |-> "inv", f |-> "savingEdit"],
    [h |-> "gl.handleAddGoal", c |-> "gl", f |-> "savingNew"],
    [h |-> "gl.saveEdit", c |-> "gl", f |-> "savingEdit"],
    [h |-> "cd.handleSave", c |-> "cd", f |-> "saving"],
    [h |-> "ne.handleSubmit", c |-> "ne", f |-> "loading"],
    [h |-> "ee.handleSubmit", c |-> "ee", f |-> "saving"],
    [h |-> "login.handleLogin", c |-> "login", f |-> "loading"] }

Component(c) ==
    CASE c = "inv" -> inv [] c = "gl" -> gl [] c = "cd" -> cd [] c = "ne" -> ne
      [] c = "ee" -> ee [] c = "login" -> login

Mounted(component) == "mounted" \notin DOMAIN component

\* the step resumes a handleLogin whose Login has left the page
OrphanResumes ==
    /\ last'.e = "login.handleLogin"
    /\ \E i \in 1..Len(net) : Answered(i) /\ ~net[i].arg.live

\* C20: while its component stays on the page, the flag of a submit handler
\* is true after the step in which the handler issues its request, is false
\* after the step in which the handler resumes with the response, be it a
\* success or a failure, and is changed by no other step: it stays true for
\* as long as the response does not arrive
C20_FlagWhileInFlight ==
    [][ \A x \in InFlightFlags :
            (Mounted(Component(x.c)) /\ Mounted(Component(x.c)')) =>
                IF last'.e = x.h /\ last'.r = "sent"
                THEN Component(x.c)'[x.f] = TRUE
                ELSE IF last'.e = x.h /\ last'.r \in {"ok", "error"} /\ ~OrphanResumes
                THEN Component(x.c)'[x.f] = FALSE
                ELSE Component(x.c)'[x.f] = Component(x.c)[x.f] ]_vars

\* a sign-in has failed: Login shows the error and its flag is down again
C20_Example ==
    /\ page = "login" /\ last = Ev("login.handleLogin", "error")
    /\ ~login.loading /\ login.errorMsg # Null


(***************************************************************************)
(* Claims about the view mode of the Inventory and Goals tables            *)
(***************************************************************************)

\* the edit fields of the two screens
ItemEditFields(s) == <<s.editName, s.editCategory, s.editUnit, s.editQuantity,
                       s.editThreshold, s.editNotes>>
GoalEditFields(s) == <<s.editTitle, s.editMonth, s.editNotes>>

\* the edit fields hold the values of the row
ItemLoaded(s, item) ==
    ItemEditFields(s) = <<item.name, item.category, item.unit, Num(item.quantity),
                          Num(item.reorder_threshold),
                          IF item.notes = Null THEN <<>> ELSE item.notes.v>>
GoalLoaded(s, goal) ==
    GoalEditFields(s) = <<goal.title, goal.month,
                          IF goal.notes = Null THEN <<>> ELSE goal.notes.v>>

\* C21: the view mode is browsing (editingId null) or editing one row id;
\* startEdit of a row moves to editing that row with the edit fields loaded
\* from it; cancelEdit and a successful saveEdit move to browsing; a failed
\* or rejected saveEdit leaves the mode and the edit fields as they are
C21_ViewMode ==
    /\ [](/\ page = "inventory" => (inv.editingId = Null \/ IsNum(inv.editingId))
          /\ page = "goals" => (gl.editingId = Null \/ IsNum(gl.editingId)))
    /\ [][ /\ last'.e = "inv.startEdit" =>
                \E k \in 1..Len(inv.items) :
                    /\ inv'.editingId = Num(inv.items[k].id)
                    /\ ItemLoaded(inv', inv.items[k])
           /\ last'.e = "gl.startEdit" =>
                \E k \in 1..Len(gl.goals) :
                    /\ gl'.editingId = Num(gl.goals[k].id)
                    /\ GoalLoaded(gl', gl.goals[k])
           /\ (last'.e \in {"inv.cancelEdit", "gl.cancelEdit"}
                    \/ (last'.e \in {"inv.saveEdit", "gl.saveEdit"} /\ last'.r = "ok")) =>
                IF page = "inventory" THEN inv'.editingId = Null ELSE gl'.editingId = Null
           /\ (last'.e = "inv.saveEdit" /\ last'.r \in {"error", "rejected"}) =>
                /\ inv'.editingId = inv.editingId
                /\ ItemEditFields(inv') = ItemEditFields(inv)
                /\ last'.r = "rejected" => IsNum(inv.editingId)
           /\ (last'.e = "gl.saveEdit" /\ last'.r \in {"error", "rejected"}) =>
                /\ gl'.editingId = gl.editingId
                /\ GoalEditFields(gl') = GoalEditFields(gl)
                /\ last'.r = "rejected" => IsNum(gl.editingId) ]_vars

\* a save of an inventory row has failed and the row is still in the edit
\* form with what the user typed
C21_Example ==
    /\ page = "inventory" /\ last = Ev("inv.saveEdit", "error")
    /\ IsNum(inv.editingId) /\ inv.editName = <<"c">> /\ inv.errorMsg # Null


(***************************************************************************)
(* Claims about the way out of the login page                              *)
(***************************************************************************)

\* C22: whenever a session exists while the location is /login, after a
\* sign-in on the page or otherwise, Login renders a redirect instead of its
\* form, and that redirect leads to /dashboard with no navigation state,
\* whatever location the guard stored in the navigation state of /login
C22_LoginLeadsToDashboard ==
    /\ []((client # Null /\ location.pathname = "/login") =>
            page = IF auth.session # Null THEN "navigate" ELSE "login")
    /\ [][ (client # Null /\ location.pathname = "/login" /\ last'.e = "Navigate") =>
                location' = Location("/dashboard", Null) ]_vars
    /\ [][ last'.e = "login.handleLogin" => location' = location ]_vars

\* a visitor who asked for /cash has signed in on the login page: the
\* session is in the auth context, and Login renders its redirect while the
\* guard's stored location is still in the navigation state
C22_Example ==
    /\ location = Location("/login", From(Location("/cash", Null)))
    /\ auth.session # Null /\ page = "navigate"
    /\ \E k \in 1..Len(net) : net[k].h = "login.handleLogin" /\ net[k].phase = "ok"


(***************************************************************************)
(* Claims about the quantities of the Inventory                            *)
(***************************************************************************)

\* the quantity and the threshold a record holds, where it holds them
NonNegative(fields) ==
    /\ "quantity" \in DOMAIN fields => fields.quantity >= 0
    /\ "reorder_threshold" \in DOMAIN fields => fields.reorder_threshold >= 0

\* what a request of the Inventory sends to the store
SentFields(r) ==
    CASE r.h = "inv.handleAddItem" -> r.arg
      [] r.h \in {"inv.saveEdit", "inv.adjustQuantity"} -> r.arg.patch
      [] OTHER -> <<>>

\* C23: on the Inventory screen every item in local state and every value
\* sent to the store has quantity >= 0 and reorder_threshold >= 0
C23_QuantitiesNotNegative ==
    page = "inventory" =>
        /\ \A k \in 1..Len(inv.items) : NonNegative(inv.items[k])
        /\ \A k \in 1..Len(net) : NonNegative(SentFields(net[k]))


(***************************************************************************)
(* Claims about the Dashboard's load                                       *)
(***************************************************************************)

DashboardQueries == {"db.loadData.events", "db.loadData.inventory", "db.loadData.goals"}

\* the lists the Dashboard holds
DashboardLists(s) == <<s.events, s.inventory, s.goals>>

\* the data of the answer to the query h
AnswerTo(h) == net[CHOOSE k \in 1..Len(net) : net[k].h = h].data

\* C24: when loadData resumes, with the three answers in: if any of the
\* three queries has failed, none of the three lists is replaced, an error
\* message is set and the load counts as failed; if all three have
\* succeeded, the three lists are the three answers and no error message
\* is set; either way loading is false afterwards
C24_LoadIsAllOrNothing ==
    [][ last'.e = "db.loadData" =>
            /\ \A h \in DashboardQueries : \E k \in 1..Len(net) : net[k].h = h /\ net[k].phase # "sent"
            /\ ~db'.loading
            /\ IF \E k \in 1..Len(net) : net[k].h \in DashboardQueries /\ net[k].phase = "error"
               THEN /\ DashboardLists(db') = DashboardLists(db)
                    /\ Truthy(db'.errorMsg)
                    /\ last'.r = "error"
               ELSE /\ DashboardLists(db') = <<AnswerTo("db.loadData.events"),
                                               AnswerTo("db.loadData.inventory"),
                                               AnswerTo("db.loadData.goals")>>
                    /\ db'.errorMsg = db.errorMsg
                    /\ last'.r = "ok" ]_vars

\* a load has failed against tables that hold rows: the Dashboard holds no
\* list and shows the message
C24_Example ==
    /\ page = "dashboard" /\ last = Ev("db.loadData", "error")
    /\ DashboardLists(db) = <<<<>>, <<>>, <<>>>> /\ Truthy(db.errorMsg) /\ ~db.loading
    /\ store.inventory_items # <<>>


(***************************************************************************)
(* Claims about deletes in flight                                          *)
(***************************************************************************)

\* C25: on the Inventory and Events screens, while a delete request for a
\* row is in flight the delete control of that row is disabled, that is
\* deletingId is the row's id
C25_DeleteControlDisabledInFlight ==
    /\ page = "inventory" =>
            \A k \in 1..Len(net) :
                net[k].h = "inv.deleteItem" => inv.deletingId = Num(net[k].arg.id)
    /\ page = "events" =>
            \A k \in 1..Len(net) :
                net[k].h = "ev.handleDelete" => ev.deletingId = Num(net[k].arg.id)


(***************************************************************************)
(* Claims about quick adjustments in flight                                *)
(***************************************************************************)

\* the quick adjustments of the item id among the requests s
AdjustmentsOf(s, id) ==
    {k \in 1..Len(s) : s[k].h = "inv.adjustQuantity" /\ s[k].arg.id = id}

\* C26: a quick adjustment is never computed while an earlier adjustment of
\* the same item is pending, so each one starts from the quantity the one
\* before it has left and none is lost
C26_NoAdjustmentFromStaleQuantity ==
    [][ last' = Ev("inv.adjustQuantity", "sent") =>
            AdjustmentsOf(net, net'[Len(net')].arg.id) = {} ]_vars


(***************************************************************************)
(* Claims about an edit started while a save is in flight                  *)
(***************************************************************************)

\* the answered saves h of a row other than the one in the edit form
SavesOfAnotherRow(h, editingId) ==
    {i \in 1..Len(net) : /\ net[i].h = h /\ net[i].phase = "ok"
                         /\ IsNum(editingId) /\ net[i].arg.id # editingId.v}

\* C27: the success of a saveEdit of row A that arrives while the user is
\* editing another row B leaves the view in mode editing B with the edit
\* fields of B as they are
C27_SaveOfAnotherRowKeepsEdit ==
    [][ /\ (page = "inventory" /\ last' = Ev("inv.saveEdit", "ok")) =>
                \A i \in SavesOfAnotherRow("inv.saveEdit", inv.editingId) :
                    net' = RemoveAt(net, i) =>
                        /\ inv'.editingId = inv.editingId
                        /\ ItemEditFields(inv') = ItemEditFields(inv)
        /\ (page = "goals" /\ last' = Ev("gl.saveEdit", "ok")) =>
                \A i \in SavesOfAnotherRow("gl.saveEdit", gl.editingId) :
                    net' = RemoveAt(net, i) =>
                        /\ gl'.editingId = gl.editingId
                        /\ GoalEditFields(gl') = GoalEditFields(gl) ]_vars


(***************************************************************************)
(* Claims about the session of the auth context                            *)
(***************************************************************************)

\* C28: a getSession result that arrives after onAuthStateChange has
\* notified a session (the context holds one while loading is still true)
\* does not overwrite the notified session, so that once loading is false
\* the context holds the session most recently reported
C28_LoadKeepsNotifiedSession ==
    [][ (last'.e = "auth.load" /\ auth.loading /\ auth.session # Null) =>
            auth'.session = auth.session ]_vars


(***************************************************************************)
(* Claims about the local inventory list and the table of the store        *)
(***************************************************************************)

\* the rows of a list, as a set
RowsOf(s) == {s[k] : k \in 1..Len(s)}

\* C29: once every request of the Inventory actions has completed, the local
\* list holds exactly the rows of the inventory_items table with the same
\* field values: no row missing, no extra row, no stale field
C29_LocalListIsStoreTable ==
    (page = "inventory" /\ ~inv.loading /\ net = <<>>) =>
        /\ Len(inv.items) = Len(store.inventory_items)
        /\ RowsOf(inv.items) = {ItemColumns(row) : row \in RowsOf(store.inventory_items)}


(***************************************************************************)
(* Claims about the types and statuses the event forms write               *)
(***************************************************************************)

\* the rows a request of the two forms asks the store to write
RowsWritten(r) ==
    IF r.h = "ne.handleSubmit" THEN RowsOf(r.arg)
    ELSE IF r.h = "ee.handleSubmit" THEN {r.arg.patch}
    ELSE {}

\* C30: every event row written by the NewEvent and EditEvent forms has its
\* type among market, wedding, corporate, private, popup, other and its
\* status among inquiry, proposal_sent, booked, completed, cancelled
C30_FormsWriteListedValues ==
    \A k \in 1..Len(net) : \A row \in RowsWritten(net[k]) :
        row.type \in EVENT_TYPES /\ row.status \in STATUS_OPTIONS

====
